---- MODULE Spec2Model ----
(***************************************************************************)
(* Model of the countryxchange refresh pipeline: Refresh                   *)
(* (internal/countries/service.go), Country.Validate                       *)
(* (internal/countries/model.go) and the MySQL store functions             *)
(* EnsureTables, UpsertCountry, SaveLastRefreshed, the handler of POST     *)
(* /countries/refresh (internal/countries/handler.go) and the summary      *)
(* goroutine GenerateSummaryImage (internal/countries/image.go).           *)
(*                                                                         *)
(* Spec runs one request at a time over the full set of payloads; SpecGdp  *)
(* runs the merge loop over the whole range of the multiplier; SpecCase    *)
(* feeds names that differ by case and optional fields to a database of    *)
(* either kind of collation; SpecTwice calls                               *)
(* Refresh twice in a row; SpecConc lets two calls overlap; SpecRender     *)
(* schedules the summary goroutines; SpecOverlapFair lets two calls that   *)
(* upsert the same names run to their end; SpecRead serves GET /countries, *)
(* SpecStatus GET /status, and SpecAdmin the single-record and             *)
(* drop-tables requests beside the refreshes.                              *)
(*                                                                         *)
(* The store is two tables.  Statements issued on *sql.DB see and change   *)
(* the committed tables (db, meta); statements issued on a *sql.Tx change  *)
(* the pending writes of that transaction (txw, txmeta), which tx.Commit   *)
(* installs in one step and tx.Rollback discards.  Every SQL statement is  *)
(* a step of its own: other requests run between two statements of one     *)
(* function.                                                               *)
(*                                                                         *)
(* Nullable columns and Go pointers are sequences of length at most one:   *)
(* <<>> is NULL / nil and <<v>> is the value v.  A DOUBLE is an exact      *)
(* fraction <<numerator, denominator>> in lowest terms.  Instants are      *)
(* counted in ticks of half a second.                                      *)
(***************************************************************************)
EXTENDS Integers, Sequences, FiniteSets, TLC

VARIABLES
    tables,     \* names of the tables that exist in the database
    db,         \* committed rows of table countries
    meta,       \* committed meta_value of key 'last_refreshed_at' (<<>>: no row)
    nextId,     \* AUTO_INCREMENT counter of countries.id
    clock,      \* latest instant observed by time.Now()
    txcount,    \* number of transactions db.BeginTx has opened
    collation,  \* collation of the database, which the column countries.name takes
    reserved,   \* per invocation: the id the upsert waiting for a row lock reserved (0: none)
    pc,         \* per invocation: position inside Refresh
    rc,         \* per invocation: decoded directory payload ([]restCountry)
    rr,         \* per invocation: decoded rate map (ratesResp.Rates)
    now,        \* per invocation: the instant captured at service.go:111
    idx,        \* per invocation: position of the range loop over rc
    processed,  \* per invocation: the counter of service.go:113
    txopen,     \* per invocation: a transaction is open
    txw,        \* per invocation: rows written in the open transaction
    txmeta,     \* per invocation: metadata value written in the open transaction
    drawn,      \* per invocation: the outcomes r.Intn(1001) has yielded, in order
    result,     \* per invocation: what Refresh returned
    resp,       \* per invocation: the HTTP response the handler wrote
    render,     \* the summary goroutines launched and not yet finished
    image       \* content of cache/summary.png (<<>>: no file)

vars == <<tables, db, meta, nextId, clock, txcount, collation, reserved, pc, rc, rr, now,
          idx, processed, txopen, txw, txmeta, drawn, result, resp, render, image>>

----------------------------------------------------------------------------
(* Bounds of the model *)

MaxLen == 2          \* longest directory payload
MaxClock == 3        \* last instant (in ticks) at which a run may begin its transaction

Procs == {1, 2}      \* request goroutines that may execute Refresh

\* Transactions db.BeginTx opens altogether: one per request goroutine,
\* whether the two requests overlap or follow each other.
MaxTx == Cardinality(Procs)

None == <<>>
Some(v) == <<v>>

Names == {"", "Wakanda", "Zed"}
Populations == {0, 5, 9}
CurrencyLists == {<<>>, <<"USD">>, <<"XYZ">>}

\* The directory entries the model feeds to Refresh: a sample of the product
\* of the field values above that keeps every branch of the merge loop.
RawCountries ==
    { r \in [name : Names, capital : {"", "Birnin Zana"}, region : {"Africa"},
             population : Populations, flag : {"https://flags/w.svg"},
             currencies : CurrencyLists] :
        /\ (r.capital = "") = (r.population = 9)
        /\ r.name = "" => (r.population = 5 /\ r.currencies = <<"USD">>)
        /\ r.name = "Zed" => (r.population = 5 /\ r.currencies = <<"XYZ">>)
        /\ r.population = 0 => r.currencies = <<"USD">>
        /\ r.name = "Wakanda" => ((r.population = 9) = (r.currencies = <<"XYZ">>)) }

RECURSIVE SeqsUpTo(_, _)
SeqsUpTo(S, n) ==
    IF n = 0 THEN {<<>>}
    ELSE LET shorter == SeqsUpTo(S, n - 1)
         IN  shorter \cup {Append(s, x) : s \in {t \in shorter : Len(t) = n - 1}, x \in S}

Payloads == SeqsUpTo(RawCountries, MaxLen)

\* The rate map the feed returns to the refresh runs: USD is quoted, XYZ is not.
RateMaps == { [c \in {"USD"} |-> 2] }

\* r.Intn(n): any of 0 .. n-1.
Intn(n) == 0..(n - 1)

\* Outcomes of r.Intn(1001) explored by the refresh runs (both extremes).
RandDraws == {k \in Intn(1001) : k % 1000 = 0}

----------------------------------------------------------------------------
(* Values *)

RECURSIVE GCD(_, _)
GCD(a, b) == IF b = 0 THEN a ELSE GCD(b, a % b)

\* The quotient n / d (d > 0) as a fraction in lowest terms.
Frac(n, d) == LET g == GCD(n, d) IN IF g = 0 THEN <<0, 1>> ELSE <<n \div g, d \div g>>

\* LOWER() of MySQL, and the folding of a case-insensitive collation.
Lower(s) ==
    CASE s = "Wakanda" -> "wakanda"
      [] s = "Zed" -> "zed"
      [] s = "Genovia" -> "genovia"
      [] s = "Narnia" -> "narnia"
      [] s = "Africa" -> "africa"
      [] s = "Europe" -> "europe"
      [] s = "EUROPE" -> "europe"
      [] s = "Asia" -> "asia"
      [] s = "USD" -> "usd"
      [] s = "XYZ" -> "xyz"
      [] OTHER -> s

\* CREATE TABLE countries names no character set and no collation, so the
\* column name takes the default collation of the database the program is
\* pointed at: one that folds case (the default of a MySQL server) or one
\* that compares the exact string.
CaseInsensitive == "utf8mb4_0900_ai_ci"
ExactString == "utf8mb4_bin"
Collations == {CaseInsensitive, ExactString}

\* The value the index unique_name compares.
NameKey(name) == IF collation = CaseInsensitive THEN Lower(name) ELSE name

\* t.UTC().Format(time.RFC3339): whole seconds, the fraction is dropped.
FormatRFC3339(t) == t \div 2

\* A time.Time stored in a DATETIME column: rounded to the nearest second.
ToDatetime(t) == (t + 1) \div 2

----------------------------------------------------------------------------
(* Refresh: deriving and validating one record (pure part of the loop) *)

\* Variant: a rate that is not quoted gives the zero estimate.
BuildCountryZeroWhenNoRate(rcountry, rates, k, t) ==
    LET hasCode == Len(rcountry.currencies) > 0 /\ rcountry.currencies[1] # ""
        code    == rcountry.currencies[1]
        found   == hasCode /\ code \in DOMAIN rates
        mult    == k + 1000
    IN  [ Name            |-> rcountry.name,
          Capital         |-> IF rcountry.capital # "" THEN Some(rcountry.capital) ELSE None,
          Region          |-> IF rcountry.region # "" THEN Some(rcountry.region) ELSE None,
          Population      |-> rcountry.population,
          CurrencyCode    |-> IF hasCode THEN Some(code) ELSE None,
          ExchangeRate    |-> IF found THEN Some(Frac(rates[code], 1)) ELSE None,
          EstimatedGDP    |-> IF found
                              THEN Some(Frac(rcountry.population * mult, rates[code]))
                              ELSE Some(<<0, 1>>),
          FlagURL         |-> IF rcountry.flag # "" THEN Some(rcountry.flag) ELSE None,
          LastRefreshedAt |-> Some(t) ]

\* Variant: an entry without a currency code is quoted at 1 and gets an
\* estimate from its population.
BuildCountryEstimateWithoutCode(rcountry, rates, k, t) ==
    LET hasCode == Len(rcountry.currencies) > 0 /\ rcountry.currencies[1] # ""
        code    == rcountry.currencies[1]
        found   == hasCode /\ code \in DOMAIN rates
        mult    == k + 1000
    IN  [ Name            |-> rcountry.name,
          Capital         |-> IF rcountry.capital # "" THEN Some(rcountry.capital) ELSE None,
          Region          |-> IF rcountry.region # "" THEN Some(rcountry.region) ELSE None,
          Population      |-> rcountry.population,
          CurrencyCode    |-> IF hasCode THEN Some(code) ELSE None,
          ExchangeRate    |-> IF found THEN Some(Frac(rates[code], 1))
                              ELSE IF hasCode THEN None ELSE Some(<<1, 1>>),
          EstimatedGDP    |-> IF hasCode
                              THEN IF found
                                   THEN Some(Frac(rcountry.population * mult, rates[code]))
                                   ELSE None
                              ELSE Some(Frac(rcountry.population * mult, 1)),
          FlagURL         |-> IF rcountry.flag # "" THEN Some(rcountry.flag) ELSE None,
          LastRefreshedAt |-> Some(t) ]

\* Variant: the multiplier is drawn from 1001..2001.
BuildCountryMultOffByOne(rcountry, rates, k, t) ==
    LET hasCode == Len(rcountry.currencies) > 0 /\ rcountry.currencies[1] # ""
        code    == rcountry.currencies[1]
        found   == hasCode /\ code \in DOMAIN rates
        mult    == k + 1001
    IN  [ Name            |-> rcountry.name,
          Capital         |-> IF rcountry.capital # "" THEN Some(rcountry.capital) ELSE None,
          Region          |-> IF rcountry.region # "" THEN Some(rcountry.region) ELSE None,
          Population      |-> rcountry.population,
          CurrencyCode    |-> IF hasCode THEN Some(code) ELSE None,
          ExchangeRate    |-> IF found THEN Some(Frac(rates[code], 1)) ELSE None,
          EstimatedGDP    |-> IF hasCode
                              THEN IF found
                                   THEN Some(Frac(rcountry.population * mult, rates[code]))
                                   ELSE None
                              ELSE Some(<<0, 1>>),
          FlagURL         |-> IF rcountry.flag # "" THEN Some(rcountry.flag) ELSE None,
          LastRefreshedAt |-> Some(t) ]

\* service.go:121-163: the Country built from one directory entry, the rate
\* map, the outcome k of r.Intn(1001) and the instant t captured as now.
BuildCountry(rcountry, rates, k, t) ==
    LET hasCode == Len(rcountry.currencies) > 0 /\ rcountry.currencies[1] # ""
        code    == rcountry.currencies[1]
        found   == hasCode /\ code \in DOMAIN rates
        mult    == k + 1000
    IN  [ Name            |-> rcountry.name,
          Capital         |-> IF rcountry.capital # "" THEN Some(rcountry.capital) ELSE None,
          Region          |-> IF rcountry.region # "" THEN Some(rcountry.region) ELSE None,
          Population      |-> rcountry.population,
          CurrencyCode    |-> IF hasCode THEN Some(code) ELSE None,
          ExchangeRate    |-> IF found THEN Some(Frac(rates[code], 1)) ELSE None,
          EstimatedGDP    |-> IF hasCode
                              THEN IF found
                                   THEN Some(Frac(rcountry.population * mult, rates[code]))
                                   ELSE None
                              ELSE Some(<<0, 1>>),
          FlagURL         |-> IF rcountry.flag # "" THEN Some(rcountry.flag) ELSE None,
          LastRefreshedAt |-> Some(t) ]

\* service.go:116-131: whether the iteration reaches r.Intn(1001).
CallsIntn(rcountry, rates) ==
    /\ rcountry.name # ""
    /\ Len(rcountry.currencies) > 0
    /\ rcountry.currencies[1] # ""
    /\ rcountry.currencies[1] \in DOMAIN rates

\* model.go:47-64: the set of fields Country.Validate reports.
ValidateErrors(c) ==
    (IF c.Name = "" THEN {"name"} ELSE {})
    \cup (IF c.Population <= 0 THEN {"population"} ELSE {})
    \cup (IF c.CurrencyCode = None \/ c.CurrencyCode = Some("") THEN {"currency_code"} ELSE {})

\* Variant: the population check is missing.
ValidateIgnoresPopulation(c) == ValidateErrors(c) \subseteq {"population"}

\* Variant: the currency check is missing.
ValidateIgnoresCurrency(c) == ValidateErrors(c) \subseteq {"currency_code"}

\* Variant: validation accepts every named record.
ValidateNameOnly(c) == "name" \notin ValidateErrors(c)

Validate(c) == ValidateErrors(c) = {}

----------------------------------------------------------------------------
(* Store *)

TableNames == {"countries", "metadata"}

\* EnsureTables: one CREATE TABLE IF NOT EXISTS statement on *sql.DB, for
\* countries and then for metadata.
CreateTableIfNotExists(tbls, name) == tbls \cup {name}

\* DropTables: one DROP TABLE IF EXISTS statement on *sql.DB, for metadata
\* and then for countries.
DropTableIfExists(tbls, name) == tbls \ {name}

Keys(rows) == {NameKey(r.name) : r \in rows}

\* Primary keys of a set of rows.
RowIds(rows) == {r.id : r \in rows}

\* The table countries as the statements of a transaction see it: the
\* committed rows with the rows the transaction wrote in place of their
\* committed versions.
TxView(committed, pending) ==
    pending \cup {r \in committed : r.id \notin RowIds(pending)}

\* Variant: the update keeps the stored value of a nullable column when the
\* new value is NULL (col = COALESCE(VALUES(col), col)).
UpsertRowKeepsWhenNull(view, c, id) ==
    LET dup == {r \in view : NameKey(r.name) = NameKey(c.Name)}
        old == CHOOSE r \in dup : TRUE
        Keep(new, stored) == IF new = None /\ dup # {} THEN stored ELSE new
    IN  [ id                |-> IF dup = {} THEN id ELSE old.id,
          name              |-> IF dup = {} THEN c.Name ELSE old.name,
          capital           |-> Keep(c.Capital, old.capital),
          region            |-> Keep(c.Region, old.region),
          population        |-> c.Population,
          currency_code     |-> Keep(c.CurrencyCode, old.currency_code),
          exchange_rate     |-> Keep(c.ExchangeRate, old.exchange_rate),
          estimated_gdp     |-> Keep(c.EstimatedGDP, old.estimated_gdp),
          flag_url          |-> Keep(c.FlagURL, old.flag_url),
          last_refreshed_at |-> IF c.LastRefreshedAt = None THEN None
                                ELSE Some(ToDatetime(c.LastRefreshedAt[1])) ]

\* The row INSERT ... ON DUPLICATE KEY UPDATE leaves for Country c: a new row
\* with the next id, or the row with the same unique key with every column
\* but id and name replaced.
UpsertRow(view, c, id) ==
    LET dup == {r \in view : NameKey(r.name) = NameKey(c.Name)}
        old == CHOOSE r \in dup : TRUE
    IN  [ id                |-> IF dup = {} THEN id ELSE old.id,
          name              |-> IF dup = {} THEN c.Name ELSE old.name,
          capital           |-> c.Capital,
          region            |-> c.Region,
          population        |-> c.Population,
          currency_code     |-> c.CurrencyCode,
          exchange_rate     |-> c.ExchangeRate,
          estimated_gdp     |-> c.EstimatedGDP,
          flag_url          |-> c.FlagURL,
          last_refreshed_at |-> IF c.LastRefreshedAt = None THEN None
                                ELSE Some(ToDatetime(c.LastRefreshedAt[1])) ]

\* Variant: a plain INSERT, without the ON DUPLICATE KEY UPDATE clause and
\* without the unique key.
UpsertCountryInsertOnly(committed, pending, c, id) ==
    pending \cup {UpsertRow({}, c, id)}

\* UpsertCountry(tx, c): the pending rows of the transaction afterwards.
UpsertCountry(committed, pending, c, id) ==
    LET row == UpsertRow(TxView(committed, pending), c, id)
    IN  {r \in pending : r.id # row.id} \cup {row}

\* The AUTO_INCREMENT counter after one INSERT ... ON DUPLICATE KEY UPDATE:
\* with innodb_autoinc_lock_mode at its default (1 or 2) the statement
\* reserves a value whether it inserts the row or updates it, and a rollback
\* does not give the value back.
NextAutoInc(id) == id + 1

\* The counter after an INSERT ... ON DUPLICATE KEY UPDATE that returned an
\* error without having waited: the server may have reserved the value
\* before the error; an error met before the statement runs (no table, no
\* connection) leaves the counter.
AutoIncAfterError(tbls, id) ==
    IF "countries" \in tbls THEN {id, NextAutoInc(id)} ELSE {id}

\* SaveLastRefreshed(tx, t): the meta_value written for 'last_refreshed_at'.
SaveLastRefreshed(t) == Some(FormatRFC3339(t))

\* Variant: the commit leaves the table with the rows of the run only.
CommitRowsReplacesTable(committed, pending) == pending

\* tx.Commit: the committed rows once the pending rows are installed.
CommitRows(committed, pending) == TxView(committed, pending)

\* Variant: the metadata write is not part of what the commit installs.
CommitMetaNotInTx(committedMeta, pendingMeta) == committedMeta

\* tx.Commit: the committed metadata once the pending value is installed.
CommitMeta(committedMeta, pendingMeta) ==
    IF pendingMeta = None THEN committedMeta ELSE pendingMeta

\* GetByName: the rows WHERE LOWER(name) = LOWER(?) matches; LIMIT 1 returns
\* one of them.
GetByName(rows, name) == {r \in rows : Lower(r.name) = Lower(name)}

\* Variant: the DELETE compares the stored name byte by byte.
DeleteByNameExact(rows, name) == rows \ {r \in rows : r.name = name}

\* DeleteByName: the rows left by DELETE ... WHERE LOWER(name) = LOWER(?).
DeleteByName(rows, name) == rows \ {r \in rows : Lower(r.name) = Lower(name)}

\* TotalCount: SELECT COUNT(*) FROM countries.
TotalCount(rows) == Cardinality(rows)

\* GetLastRefreshed: the stored string parsed back to an instant, nil when
\* there is no row.  The only statement that writes the row is that of
\* SaveLastRefreshed, so a stored value is never NULL, empty or unparsable.
GetLastRefreshed(m) == IF m = None THEN None ELSE Some(m[1] * 2)

\* What the reads on *sql.DB return from the committed tables.
StoreReads(rows, m) ==
    [list |-> rows, count |-> TotalCount(rows), last |-> GetLastRefreshed(m)]

----------------------------------------------------------------------------
(* Refresh, one action per blocking call *)

NoRates == [c \in {} |-> 0]

\* What Refresh returned: err is "" on success, "ExternalError" with the api
\* set, or the call whose error was returned; render tells whether the
\* summary goroutine was launched.
NoResult == [err |-> "none", api |-> "", total |-> 0, last |-> 0, render |-> FALSE]
ExternalError(api) == [err |-> "ExternalError", api |-> api, total |-> 0, last |-> 0, render |-> FALSE]
InternalError(call) == [err |-> call, api |-> "", total |-> 0, last |-> 0, render |-> FALSE]
RefreshResult(total, t) == [err |-> "", api |-> "", total |-> total, last |-> t, render |-> TRUE]

\* model.go: a *ValidationError carrying the fields that failed.
ValidationError(errors) ==
    [err |-> "ValidationError", api |-> "", total |-> 0, last |-> 0, render |-> FALSE,
     errors |-> errors]

\* An HTTP response: status 0 while nothing was written.
NoResponse ==
    [status |-> 0, error |-> "", details |-> None, message |-> "", total |-> 0,
     last_refreshed_at |-> None]

\* handler.go: writeError(w, status, msg, details).
WriteError(status, msg, details) ==
    [status |-> status, error |-> msg, details |-> details, message |-> "", total |-> 0,
     last_refreshed_at |-> None]

\* service.go:47-49: ExternalError.Error().
ErrorString(api) == <<"Could not fetch data from", api>>

\* Variant: the handler does not tell an ExternalError from other errors.
RefreshHandlerNoExternal(res) ==
    IF res.err # ""
    THEN WriteError(500, "Internal server error", None)
    ELSE [status |-> 200, error |-> "", details |-> None, message |-> "refreshed",
          total |-> res.total, last_refreshed_at |-> Some(FormatRFC3339(res.last))]

\* handler.go:43-64: the response written for what Refresh returned.
RefreshHandler(res) ==
    IF res.err = "ValidationError"
    THEN WriteError(400, "Validation failed", Some(res.errors))
    ELSE IF res.err = "ExternalError"
    THEN WriteError(503, "External data source unavailable", Some(ErrorString(res.api)))
    ELSE IF res.err # ""
    THEN WriteError(500, "Internal server error", None)
    ELSE [status |-> 200, error |-> "", details |-> None, message |-> "refreshed",
          total |-> res.total, last_refreshed_at |-> Some(FormatRFC3339(res.last))]

\* service.go:196: a summary goroutine that has not run yet; st is the next
\* step of GenerateSummaryImage, total the count and top the list it has read.
NewTask == [st |-> "count", total |-> 0, top |-> <<>>]

\* The server is up with an empty database whose collation is one of colls;
\* no request has arrived.
InitOn(colls) ==
    /\ tables = {}
    /\ db = {}
    /\ meta = None
    /\ nextId = 1
    /\ clock = 2
    /\ txcount = 0
    /\ collation \in colls
    /\ reserved = [p \in Procs |-> 0]
    /\ pc = [p \in Procs |-> "idle"]
    /\ rc = [p \in Procs |-> <<>>]
    /\ rr = [p \in Procs |-> NoRates]
    /\ now = [p \in Procs |-> 0]
    /\ idx = [p \in Procs |-> 0]
    /\ processed = [p \in Procs |-> 0]
    /\ txopen = [p \in Procs |-> FALSE]
    /\ txw = [p \in Procs |-> {}]
    /\ txmeta = [p \in Procs |-> None]
    /\ drawn = [p \in Procs |-> <<>>]
    /\ result = [p \in Procs |-> NoResult]
    /\ resp = [p \in Procs |-> NoResponse]
    /\ render = <<>>
    /\ image = None

\* The start of the specifications whose payloads hold no two names that
\* differ by case only: the unique key tells their names apart alike under
\* either collation, and the database has the server's default.
Init == InitOn({CaseInsensitive})

\* The start of the specification that feeds both spellings of a name: the
\* database has either collation.
InitCase == InitOn(Collations)

\* Variant: an error sends the run back to its first fetch.
ReturnErrRetries(p, e) ==
    /\ pc' = [pc EXCEPT ![p] = "idle"]
    /\ result' = [result EXCEPT ![p] = e]

\* return nil, err
ReturnErr(p, e) ==
    /\ pc' = [pc EXCEPT ![p] = "done"]
    /\ result' = [result EXCEPT ![p] = e]

\* Variant: the error path returns without rolling back.
RollbackMissing(p) == UNCHANGED <<txopen, txw, txmeta>>

\* tx.Rollback(): the pending writes are dropped.
Rollback(p) ==
    /\ txopen' = [txopen EXCEPT ![p] = FALSE]
    /\ txw' = [txw EXCEPT ![p] = {}]
    /\ txmeta' = [txmeta EXCEPT ![p] = None]

\* Variant: the rate feed is fetched before the directory, and its failure
\* is the one reported.
RefreshFetchCountriesRatesFirst(p, payloads) ==
    /\ pc[p] = "idle"
    /\ resp' = [resp EXCEPT ![p] = NoResponse]
    /\ \/ /\ ReturnErr(p, ExternalError("exchangerates"))
          /\ UNCHANGED rc
       \/ /\ ReturnErr(p, ExternalError("restcountries"))
          /\ UNCHANGED rc
       \/ \E payload \in payloads :
             /\ rc' = [rc EXCEPT ![p] = payload]
             /\ pc' = [pc EXCEPT ![p] = "rates"]
             /\ UNCHANGED result
    /\ UNCHANGED <<tables, db, meta, nextId, clock, txcount, collation, reserved, rr, now, idx, processed,
                   txopen, txw, txmeta, drawn, render, image>>

\* handler.go:32-42, service.go:58-75: a request arrives, Refresh is called;
\* GET restcountries and decode, the directory answering one of payloads.
RefreshFetchCountriesFrom(p, payloads) ==
    /\ pc[p] = "idle"
    /\ resp' = [resp EXCEPT ![p] = NoResponse]
    /\ \/ /\ ReturnErr(p, ExternalError("restcountries"))
          /\ UNCHANGED rc
       \/ \E payload \in payloads :
             /\ rc' = [rc EXCEPT ![p] = payload]
             /\ pc' = [pc EXCEPT ![p] = "rates"]
             /\ UNCHANGED result
    /\ UNCHANGED <<tables, db, meta, nextId, clock, txcount, collation, reserved, rr, now, idx, processed,
                   txopen, txw, txmeta, drawn, render, image>>

RefreshFetchCountries(p) == RefreshFetchCountriesFrom(p, Payloads)

\* Variant: the schema bootstrap runs before the rate feed is fetched.
RefreshFetchRatesAfterBootstrap(p) ==
    /\ pc[p] = "rates"
    /\ tables' = CreateTableIfNotExists(CreateTableIfNotExists(tables, "countries"),
                                        "metadata")
    /\ \/ /\ ReturnErr(p, ExternalError("exchangerates"))
          /\ UNCHANGED rr
       \/ \E rates \in RateMaps :
             /\ rr' = [rr EXCEPT ![p] = rates]
             /\ pc' = [pc EXCEPT ![p] = "begin"]
             /\ UNCHANGED result
    /\ UNCHANGED <<db, meta, nextId, clock, txcount, collation, reserved, rc, now, idx, processed,
                   txopen, txw, txmeta>>
    /\ UNCHANGED <<drawn, resp, render, image>>

\* service.go:77-94: GET exchange rates and decode.
RefreshFetchRates(p) ==
    /\ pc[p] = "rates"
    /\ \/ /\ ReturnErr(p, ExternalError("exchangerates"))
          /\ UNCHANGED rr
       \/ \E rates \in RateMaps :
             /\ rr' = [rr EXCEPT ![p] = rates]
             /\ pc' = [pc EXCEPT ![p] = "ensure"]
             /\ UNCHANGED result
    /\ UNCHANGED <<tables, db, meta, nextId, clock, txcount, collation, reserved, rc, now, idx, processed,
                   txopen, txw, txmeta>>
    /\ UNCHANGED <<drawn, resp, render, image>>

\* service.go:96-100, EnsureTables first statement: CREATE TABLE IF NOT
\* EXISTS countries; its error is returned.
EnsureCountries(p) ==
    /\ pc[p] = "ensure"
    /\ \/ /\ tables' = CreateTableIfNotExists(tables, "countries")
          /\ pc' = [pc EXCEPT ![p] = "ensure_metadata"]
          /\ UNCHANGED result
       \/ /\ ReturnErr(p, InternalError("EnsureTables"))
          /\ UNCHANGED tables
    /\ UNCHANGED <<db, meta, nextId, clock, txcount, collation, reserved, rc, rr, now, idx, processed,
                   txopen, txw, txmeta>>
    /\ UNCHANGED <<drawn, resp, render, image>>

\* service.go:96-100, EnsureTables second statement: CREATE TABLE IF NOT
\* EXISTS metadata; its error is returned.
EnsureMetadata(p) ==
    /\ pc[p] = "ensure_metadata"
    /\ \/ /\ tables' = CreateTableIfNotExists(tables, "metadata")
          /\ pc' = [pc EXCEPT ![p] = "begin"]
          /\ UNCHANGED result
       \/ /\ ReturnErr(p, InternalError("EnsureTables"))
          /\ UNCHANGED tables
    /\ UNCHANGED <<db, meta, nextId, clock, txcount, collation, reserved, rc, rr, now, idx, processed,
                   txopen, txw, txmeta>>
    /\ UNCHANGED <<drawn, resp, render, image>>

\* service.go:96-100: EnsureTables(db), one step per statement.
RefreshEnsureTables(p) == EnsureCountries(p) \/ EnsureMetadata(p)

\* service.go:102-113: db.BeginTx, then the seed, now and processed := 0.
\* time.Now() is not earlier than any instant read before; it may be the
\* same tick.
RefreshBeginTx(p) ==
    /\ pc[p] = "begin"
    /\ \/ /\ ReturnErr(p, InternalError("BeginTx"))
          /\ UNCHANGED <<clock, txcount, now, idx, processed, txopen>>
       \/ \E t \in clock..MaxClock :
             /\ txcount < MaxTx
             /\ clock' = t
             /\ txcount' = txcount + 1
             /\ now' = [now EXCEPT ![p] = t]
             /\ txopen' = [txopen EXCEPT ![p] = TRUE]
             /\ idx' = [idx EXCEPT ![p] = 1]
             /\ processed' = [processed EXCEPT ![p] = 0]
             /\ pc' = [pc EXCEPT ![p] = "loop"]
             /\ UNCHANGED result
    /\ UNCHANGED <<tables, db, meta, nextId, collation, reserved, rc, rr, txw, txmeta>>
    /\ UNCHANGED <<drawn, resp, render, image>>

\* Variant: the statement never waits for another transaction.
LockFreeAlways(p, key) == TRUE

\* The index record of the unique key is not locked by another open
\* transaction, so the INSERT ... ON DUPLICATE KEY UPDATE does not wait.
LockFree(p, key) == \A q \in Procs \ {p} : key \notin Keys(txw[q])

\* The outcome of r.Intn(1001) the Country in hand was built with (none
\* was drawn when the currency is not quoted, and none is used then).
LastDraw(p) == IF drawn[p] = <<>> THEN 0 ELSE drawn[p][Len(drawn[p])]

\* Variant: the error of Validate is returned instead of skipping the entry.
RefreshLoopWithReturnsInvalid(p, draws) ==
    /\ pc[p] = "loop"
    /\ idx[p] <= Len(rc[p])
    /\ LET rcountry == rc[p][idx[p]] IN
       IF reserved[p] = 0
       THEN \E k \in draws :
                LET c == BuildCountry(rcountry, rr[p], k, now[p]) IN
                /\ drawn' = [drawn EXCEPT ![p] = IF CallsIntn(rcountry, rr[p])
                                                 THEN Append(drawn[p], k) ELSE drawn[p]]
                /\ IF rcountry.name = ""
                   THEN /\ idx' = [idx EXCEPT ![p] = idx[p] + 1]
                        /\ UNCHANGED <<nextId, reserved, pc, processed, txopen, txw, txmeta,
                                       result>>
                   ELSE IF ~Validate(c)
                   THEN /\ Rollback(p)
                        /\ ReturnErr(p, ValidationError(ValidateErrors(c)))
                        /\ UNCHANGED <<nextId, reserved, idx, processed>>
                   ELSE \/ \* no other transaction holds the row: the statement runs
                           /\ "countries" \in tables
                           /\ LockFree(p, NameKey(c.Name))
                           /\ txw' = [txw EXCEPT ![p] = UpsertCountry(db, txw[p], c, nextId)]
                           /\ nextId' = NextAutoInc(nextId)
                           /\ processed' = [processed EXCEPT ![p] = processed[p] + 1]
                           /\ idx' = [idx EXCEPT ![p] = idx[p] + 1]
                           /\ UNCHANGED <<reserved, pc, txopen, txmeta, result>>
                        \/ \* the statement reserves its id and waits for the row
                           /\ "countries" \in tables
                           /\ ~LockFree(p, NameKey(c.Name))
                           /\ reserved' = [reserved EXCEPT ![p] = nextId]
                           /\ nextId' = NextAutoInc(nextId)
                           /\ UNCHANGED <<idx, processed, pc, txopen, txw, txmeta, result>>
                        \/ \* the statement returns an error
                           /\ Rollback(p)
                           /\ ReturnErr(p, InternalError("UpsertCountry"))
                           /\ nextId' \in AutoIncAfterError(tables, nextId)
                           /\ UNCHANGED <<reserved, idx, processed>>
       ELSE LET c == BuildCountry(rcountry, rr[p], LastDraw(p), now[p]) IN
            /\ \/ \* the other transaction has ended: the row is written
                     /\ LockFree(p, NameKey(c.Name))
                     /\ txw' = [txw EXCEPT ![p] = UpsertCountry(db, txw[p], c, reserved[p])]
                     /\ reserved' = [reserved EXCEPT ![p] = 0]
                     /\ processed' = [processed EXCEPT ![p] = processed[p] + 1]
                     /\ idx' = [idx EXCEPT ![p] = idx[p] + 1]
                     /\ UNCHANGED <<pc, txopen, txmeta, result>>
                  \/ \* the wait ends with a lock wait timeout or a detected deadlock
                     /\ Rollback(p)
                     /\ ReturnErr(p, InternalError("UpsertCountry"))
                     /\ reserved' = [reserved EXCEPT ![p] = 0]
                     /\ UNCHANGED <<idx, processed>>
            /\ UNCHANGED <<nextId, drawn>>
    /\ UNCHANGED <<tables, db, meta, clock, txcount, collation, rc, rr, now, resp, render,
                   image>>

\* Variant: a statement that waits for a row lock never times out and no
\* deadlock is detected.
RefreshLoopWithWaitsForever(p, draws) ==
    /\ pc[p] = "loop"
    /\ idx[p] <= Len(rc[p])
    /\ LET rcountry == rc[p][idx[p]] IN
       IF reserved[p] = 0
       THEN \E k \in draws :
                LET c == BuildCountry(rcountry, rr[p], k, now[p]) IN
                /\ drawn' = [drawn EXCEPT ![p] = IF CallsIntn(rcountry, rr[p])
                                                 THEN Append(drawn[p], k) ELSE drawn[p]]
                /\ IF rcountry.name = "" \/ ~Validate(c)
                   THEN \* continue
                        /\ idx' = [idx EXCEPT ![p] = idx[p] + 1]
                        /\ UNCHANGED <<nextId, reserved, pc, processed, txopen, txw, txmeta,
                                       result>>
                   ELSE \/ \* no other transaction holds the row: the statement runs
                           /\ "countries" \in tables
                           /\ LockFree(p, NameKey(c.Name))
                           /\ txw' = [txw EXCEPT ![p] = UpsertCountry(db, txw[p], c, nextId)]
                           /\ nextId' = NextAutoInc(nextId)
                           /\ processed' = [processed EXCEPT ![p] = processed[p] + 1]
                           /\ idx' = [idx EXCEPT ![p] = idx[p] + 1]
                           /\ UNCHANGED <<reserved, pc, txopen, txmeta, result>>
                        \/ \* the statement reserves its id and waits for the row
                           /\ "countries" \in tables
                           /\ ~LockFree(p, NameKey(c.Name))
                           /\ reserved' = [reserved EXCEPT ![p] = nextId]
                           /\ nextId' = NextAutoInc(nextId)
                           /\ UNCHANGED <<idx, processed, pc, txopen, txw, txmeta, result>>
                        \/ \* the statement returns an error
                           /\ LockFree(p, NameKey(c.Name))
                           /\ Rollback(p)
                           /\ ReturnErr(p, InternalError("UpsertCountry"))
                           /\ nextId' \in AutoIncAfterError(tables, nextId)
                           /\ UNCHANGED <<reserved, idx, processed>>
       ELSE LET c == BuildCountry(rcountry, rr[p], LastDraw(p), now[p]) IN
            /\ \/ \* the other transaction has ended: the row is written
                     /\ LockFree(p, NameKey(c.Name))
                     /\ txw' = [txw EXCEPT ![p] = UpsertCountry(db, txw[p], c, reserved[p])]
                     /\ reserved' = [reserved EXCEPT ![p] = 0]
                     /\ processed' = [processed EXCEPT ![p] = processed[p] + 1]
                     /\ idx' = [idx EXCEPT ![p] = idx[p] + 1]
                     /\ UNCHANGED <<pc, txopen, txmeta, result>>
            /\ UNCHANGED <<nextId, drawn>>
    /\ UNCHANGED <<tables, db, meta, clock, txcount, collation, rc, rr, now, resp, render,
                   image>>

\* service.go:114-180: one iteration of the range loop, with the outcomes
\* of r.Intn(1001) drawn from draws.  The tx.Exec of UpsertCountry is one
\* step when no other transaction holds the row of the name.  Otherwise it
\* is two: the statement reserves its AUTO_INCREMENT value and waits, while
\* the other requests go on; once the row is free it writes the row, with
\* the reserved id if it inserts, or it ends with the error of the wait.
RefreshLoopWith(p, draws) ==
    /\ pc[p] = "loop"
    /\ idx[p] <= Len(rc[p])
    /\ LET rcountry == rc[p][idx[p]] IN
       IF reserved[p] = 0
       THEN \E k \in draws :
                LET c == BuildCountry(rcountry, rr[p], k, now[p]) IN
                /\ drawn' = [drawn EXCEPT ![p] = IF CallsIntn(rcountry, rr[p])
                                                 THEN Append(drawn[p], k) ELSE drawn[p]]
                /\ IF rcountry.name = "" \/ ~Validate(c)
                   THEN \* continue
                        /\ idx' = [idx EXCEPT ![p] = idx[p] + 1]
                        /\ UNCHANGED <<nextId, reserved, pc, processed, txopen, txw, txmeta,
                                       result>>
                   ELSE \/ \* no other transaction holds the row: the statement runs
                           /\ "countries" \in tables
                           /\ LockFree(p, NameKey(c.Name))
                           /\ txw' = [txw EXCEPT ![p] = UpsertCountry(db, txw[p], c, nextId)]
                           /\ nextId' = NextAutoInc(nextId)
                           /\ processed' = [processed EXCEPT ![p] = processed[p] + 1]
                           /\ idx' = [idx EXCEPT ![p] = idx[p] + 1]
                           /\ UNCHANGED <<reserved, pc, txopen, txmeta, result>>
                        \/ \* the statement reserves its id and waits for the row
                           /\ "countries" \in tables
                           /\ ~LockFree(p, NameKey(c.Name))
                           /\ reserved' = [reserved EXCEPT ![p] = nextId]
                           /\ nextId' = NextAutoInc(nextId)
                           /\ UNCHANGED <<idx, processed, pc, txopen, txw, txmeta, result>>
                        \/ \* the statement returns an error
                           /\ Rollback(p)
                           /\ ReturnErr(p, InternalError("UpsertCountry"))
                           /\ nextId' \in AutoIncAfterError(tables, nextId)
                           /\ UNCHANGED <<reserved, idx, processed>>
       ELSE LET c == BuildCountry(rcountry, rr[p], LastDraw(p), now[p]) IN
            /\ \/ \* the other transaction has ended: the row is written
                     /\ LockFree(p, NameKey(c.Name))
                     /\ txw' = [txw EXCEPT ![p] = UpsertCountry(db, txw[p], c, reserved[p])]
                     /\ reserved' = [reserved EXCEPT ![p] = 0]
                     /\ processed' = [processed EXCEPT ![p] = processed[p] + 1]
                     /\ idx' = [idx EXCEPT ![p] = idx[p] + 1]
                     /\ UNCHANGED <<pc, txopen, txmeta, result>>
                  \/ \* the wait ends with a lock wait timeout or a detected deadlock
                     /\ Rollback(p)
                     /\ ReturnErr(p, InternalError("UpsertCountry"))
                     /\ reserved' = [reserved EXCEPT ![p] = 0]
                     /\ UNCHANGED <<idx, processed>>
            /\ UNCHANGED <<nextId, drawn>>
    /\ UNCHANGED <<tables, db, meta, clock, txcount, collation, rc, rr, now, resp, render,
                   image>>

RefreshLoop(p) == RefreshLoopWith(p, RandDraws)

\* The row of key 'last_refreshed_at' is not locked by another open
\* transaction, so the INSERT ... ON DUPLICATE KEY UPDATE on metadata does
\* not wait.
MetaLockFree(p) == \A q \in Procs \ {p} : txmeta[q] = None

\* Variant: SaveLastRefreshed is executed on the connection pool, outside the
\* transaction.
RefreshSaveOnDb(p) ==
    /\ pc[p] = "loop"
    /\ idx[p] > Len(rc[p])
    /\ \/ /\ "metadata" \in tables
          /\ MetaLockFree(p)
          /\ meta' = SaveLastRefreshed(now[p])
          /\ pc' = [pc EXCEPT ![p] = "commit"]
          /\ UNCHANGED <<txopen, txw, txmeta, result>>
       \/ /\ Rollback(p)
          /\ ReturnErr(p, InternalError("SaveLastRefreshed"))
          /\ UNCHANGED meta
    /\ UNCHANGED <<tables, db, nextId, clock, txcount, collation, reserved, rc, rr, now, idx, processed>>
    /\ UNCHANGED <<drawn, resp, render, image>>

\* service.go:182-187: SaveLastRefreshed(tx, now) once the loop is over.  The
\* statement waits while another transaction holds the row; it fails when
\* the table is missing, the wait times out or the server reports an error.
RefreshSave(p) ==
    /\ pc[p] = "loop"
    /\ idx[p] > Len(rc[p])
    /\ \/ /\ "metadata" \in tables
          /\ MetaLockFree(p)
          /\ txmeta' = [txmeta EXCEPT ![p] = SaveLastRefreshed(now[p])]
          /\ pc' = [pc EXCEPT ![p] = "commit"]
          /\ UNCHANGED <<txopen, txw, result>>
       \/ /\ Rollback(p)
          /\ ReturnErr(p, InternalError("SaveLastRefreshed"))
    /\ UNCHANGED <<tables, db, meta, nextId, clock, txcount, collation, reserved, rc, rr, now, idx, processed>>
    /\ UNCHANGED <<drawn, resp, render, image>>

\* Variant: the summary goroutine is launched before the error of tx.Commit
\* is looked at.
RefreshCommitRendersAlways(p) ==
    /\ pc[p] = "commit"
    /\ render' = Append(render, NewTask)
    /\ \/ /\ db' = CommitRows(db, txw[p])
          /\ meta' = CommitMeta(meta, txmeta[p])
          /\ txopen' = [txopen EXCEPT ![p] = FALSE]
          /\ txw' = [txw EXCEPT ![p] = {}]
          /\ txmeta' = [txmeta EXCEPT ![p] = None]
          /\ pc' = [pc EXCEPT ![p] = "done"]
          /\ result' = [result EXCEPT ![p] = RefreshResult(processed[p], now[p])]
       \/ /\ Rollback(p)
          /\ ReturnErr(p, InternalError("Commit"))
          /\ UNCHANGED <<db, meta>>
    /\ UNCHANGED <<tables, nextId, clock, txcount, collation, reserved, rc, rr, now, idx, processed,
                   drawn, resp, image>>

\* service.go:189-205: tx.Commit, the detached summary goroutine, the result.
RefreshCommit(p) ==
    /\ pc[p] = "commit"
    /\ \/ /\ db' = CommitRows(db, txw[p])
          /\ meta' = CommitMeta(meta, txmeta[p])
          /\ txopen' = [txopen EXCEPT ![p] = FALSE]
          /\ txw' = [txw EXCEPT ![p] = {}]
          /\ txmeta' = [txmeta EXCEPT ![p] = None]
          /\ render' = Append(render, NewTask)
          /\ pc' = [pc EXCEPT ![p] = "done"]
          /\ result' = [result EXCEPT ![p] = RefreshResult(processed[p], now[p])]
       \/ /\ Rollback(p)
          /\ ReturnErr(p, InternalError("Commit"))
          /\ UNCHANGED <<db, meta, render>>
    /\ UNCHANGED <<tables, nextId, clock, txcount, collation, reserved, rc, rr, now, idx, processed,
                   drawn, resp, image>>

\* handler.go:43-64: the handler answers and the request goroutine ends.
RefreshReturn(p) ==
    /\ pc[p] = "done"
    /\ pc' = [pc EXCEPT ![p] = "idle"]
    /\ rc' = [rc EXCEPT ![p] = <<>>]
    /\ rr' = [rr EXCEPT ![p] = NoRates]
    /\ now' = [now EXCEPT ![p] = 0]
    /\ idx' = [idx EXCEPT ![p] = 0]
    /\ processed' = [processed EXCEPT ![p] = 0]
    /\ drawn' = [drawn EXCEPT ![p] = <<>>]
    /\ result' = [result EXCEPT ![p] = NoResult]
    /\ resp' = [resp EXCEPT ![p] = RefreshHandler(result[p])]
    /\ UNCHANGED <<tables, db, meta, nextId, clock, txcount, collation, reserved, txopen, txw, txmeta,
                   render, image>>

Refresh(p) ==
    \/ RefreshFetchCountries(p)
    \/ RefreshFetchRates(p)
    \/ RefreshEnsureTables(p)
    \/ RefreshBeginTx(p)
    \/ RefreshLoop(p)
    \/ RefreshSave(p)
    \/ RefreshCommit(p)
    \/ RefreshReturn(p)

\* One refresh request at a time.
Next == Refresh(1)

Spec == Init /\ [][Next]_vars

----------------------------------------------------------------------------
(* The merge step over the whole range of the multiplier *)

GdpCountries ==
    [name : {"Wakanda"}, capital : {"Birnin Zana"}, region : {"Africa"},
     population : {0, 5, 1000000}, flag : {"https://flags/w.svg"},
     currencies : {<<>>, <<"USD">>, <<"XYZ">>, <<"", "USD">>, <<"USD", "XYZ">>}]

GdpRateMaps ==
    { [c \in {"USD"} |-> 1], [c \in {"USD"} |-> 2],
      [c \in {"USD", "XYZ"} |-> IF c = "USD" THEN 4 ELSE 2] }

\* One-entry payloads, and one payload of two entries quoted at the same rate.
GdpPayloads ==
    {<<r>> : r \in GdpCountries}
    \cup {<<r, [r EXCEPT !.name = "Zed"]>> :
            r \in {g \in GdpCountries : g.population = 1000000 /\ g.currencies = <<"USD">>}}

\* Refresh has opened its transaction and is about to enter the loop.
InitGdp ==
    /\ tables = TableNames
    /\ db = {}
    /\ meta = None
    /\ nextId = 1
    /\ clock = 2
    /\ txcount = 1
    /\ collation = CaseInsensitive
    /\ reserved = [p \in Procs |-> 0]
    /\ pc = [p \in Procs |-> IF p = 1 THEN "loop" ELSE "idle"]
    /\ \E payload \in GdpPayloads :
          rc = [p \in Procs |-> IF p = 1 THEN payload ELSE <<>>]
    /\ \E rates \in GdpRateMaps :
          /\ rr = [p \in Procs |-> IF p = 1 THEN rates ELSE NoRates]
          /\ Len(rc[1]) = 2 => rates["USD"] = 2
    /\ now = [p \in Procs |-> IF p = 1 THEN 2 ELSE 0]
    /\ idx = [p \in Procs |-> IF p = 1 THEN 1 ELSE 0]
    /\ processed = [p \in Procs |-> 0]
    /\ txopen = [p \in Procs |-> p = 1]
    /\ txw = [p \in Procs |-> {}]
    /\ txmeta = [p \in Procs |-> None]
    /\ drawn = [p \in Procs |-> <<>>]
    /\ result = [p \in Procs |-> NoResult]
    /\ resp = [p \in Procs |-> NoResponse]
    /\ render = <<>>
    /\ image = None

RefreshLoopFull(p) == RefreshLoopWith(p, Intn(1001))

NextGdp == RefreshLoopFull(1)

SpecGdp == InitGdp /\ [][NextGdp]_vars

----------------------------------------------------------------------------
(* Refresh over names that differ by case and over optional fields *)

\* Directory entries under two spellings of one name; the optional fields
\* capital, region and flag are all present or all absent, and the currency
\* is quoted, not quoted, or absent (with the optional fields present).
CaseCountries ==
    { r \in [name : {"Wakanda", "wakanda"}, capital : {"", "Birnin Zana"},
             region : {"", "Africa"}, population : {5},
             flag : {"", "https://flags/w.svg"},
             currencies : {<<>>, <<"USD">>, <<"XYZ">>}] :
        /\ (r.capital = "") = (r.region = "")
        /\ (r.capital = "") = (r.flag = "")
        /\ r.currencies = <<>> => r.capital # "" }

\* Payloads of one entry, and of both spellings in one payload.
CasePayloads ==
    {<<r>> : r \in CaseCountries}
    \cup {<<r, [r EXCEPT !.name = "wakanda"]>> :
            r \in {c \in CaseCountries : c.name = "Wakanda" /\ c.currencies = <<"USD">>}}

RefreshCase(p) ==
    \/ RefreshFetchCountriesFrom(p, CasePayloads)
    \/ RefreshFetchRates(p)
    \/ RefreshEnsureTables(p)
    \/ RefreshBeginTx(p)
    \/ RefreshLoop(p)
    \/ RefreshSave(p)
    \/ RefreshCommit(p)
    \/ RefreshReturn(p)

NextCase == RefreshCase(1)

SpecCase == InitCase /\ [][NextCase]_vars

----------------------------------------------------------------------------
(* Refresh called twice, the second call after the first has returned *)

\* The directory entries named Wakanda whose currency is quoted: one is
\* skipped after its draw, one is stored with an estimate.
TwiceCountries ==
    {r \in RawCountries : r.name = "Wakanda" /\ r.currencies = <<"USD">>}

TwicePayloads == SeqsUpTo(TwiceCountries, MaxLen)

\* One call of Refresh by invocation p, up to its return value.
RefreshOnce(p) ==
    \/ RefreshFetchCountriesFrom(p, TwicePayloads)
    \/ RefreshFetchRates(p)
    \/ RefreshEnsureTables(p)
    \/ RefreshBeginTx(p)
    \/ RefreshLoop(p)
    \/ RefreshSave(p)
    \/ RefreshCommit(p)

\* Invocation 1 runs to its return value, which is kept; then invocation 2 runs.
NextTwice ==
    \/ RefreshOnce(1)
    \/ pc[1] = "done" /\ RefreshOnce(2)

SpecTwice == Init /\ [][NextTwice]_vars

----------------------------------------------------------------------------
(* The summary goroutine: GenerateSummaryImage(db, "cache/summary.png") *)

\* Comparison of two DOUBLEs: a >= b.
GdpGE(a, b) == a[1] * b[2] >= b[1] * a[2]

\* The verb %.2f: the value in hundredths, rounded.
Hundredths(f) == (200 * f[1] + f[2]) \div (2 * f[2])

\* image.go:21-39: the results SELECT name, estimated_gdp ... WHERE
\* estimated_gdp IS NOT NULL ORDER BY estimated_gdp DESC LIMIT 5 may return;
\* rows with equal estimates come in any order.
TopFive(rows) ==
    LET cand == {r \in rows : r.estimated_gdp # None}
        n    == IF Cardinality(cand) < 5 THEN Cardinality(cand) ELSE 5
    IN  { top \in [1..n -> cand] :
            /\ \A i, j \in 1..n : i < j =>
                  /\ top[i] # top[j]
                  /\ GdpGE(top[i].estimated_gdp[1], top[j].estimated_gdp[1])
            /\ \A r \in cand : (\A i \in 1..n : top[i] # r) =>
                  \A i \in 1..n : GdpGE(top[i].estimated_gdp[1], r.estimated_gdp[1]) }

\* image.go:41-69: what the picture shows, the header with the total and one
\* numbered line per entry of top.
SummaryImage(total, top) ==
    [total |-> total,
     lines |-> [i \in 1..Len(top) |->
                  <<i, top[i].name, Hundredths(top[i].estimated_gdp[1])>>]]

\* The sequence without its i-th element.
Remove(seq, i) == SubSeq(seq, 1, i - 1) \o SubSeq(seq, i + 1, Len(seq))

\* image.go:15-18: TotalCount(db); an error ends the goroutine.
RenderCount(i) ==
    /\ render[i].st = "count"
    /\ \/ render' = [render EXCEPT ![i] = [st |-> "top", total |-> TotalCount(db),
                                            top |-> <<>>]]
       \/ render' = Remove(render, i)
    /\ UNCHANGED <<tables, db, meta, nextId, clock, txcount, collation, reserved, pc, rc, rr, now, idx, processed,
                   txopen, txw, txmeta, drawn, result, resp, image>>

\* image.go:27-38: the name and the estimate rows.Scan stores per row.
ScanTop(top) ==
    [i \in 1..Len(top) |-> [name |-> top[i].name, estimated_gdp |-> top[i].estimated_gdp]]

\* image.go:21-39: the top-five query and its scan.  An error of db.Query or
\* rows.Scan ends the goroutine; rows.Err() is not looked at, so an error
\* that stops rows.Next() leaves the rows fetched so far as the list.
RenderTop(i) ==
    /\ render[i].st = "top"
    /\ \/ \E top \in TopFive(db) : \E n \in 0..Len(top) :
             render' = [render EXCEPT ![i] = [st |-> "draw", total |-> render[i].total,
                                              top |-> ScanTop(SubSeq(top, 1, n))]]
       \/ render' = Remove(render, i)
    /\ UNCHANGED <<tables, db, meta, nextId, clock, txcount, collation, reserved, pc, rc, rr, now, idx, processed,
                   txopen, txw, txmeta, drawn, result, resp, image>>

\* A file that is no whole picture: empty, cut short, or holding the bytes
\* of two encodings.
BrokenPNG == [total |-> -1, lines |-> <<<<"truncated or partial PNG">>>>]

\* image.go:41-69: the drawing, MkdirAll and the os.Create of SavePNG, which
\* truncates the file; an error of MkdirAll or os.Create ends the goroutine
\* and leaves the file as it was.
RenderDraw(i) ==
    /\ render[i].st = "draw"
    /\ \/ /\ render' = [render EXCEPT ![i].st = "encode"]
          /\ image' = Some(BrokenPNG)
       \/ /\ render' = Remove(render, i)
          /\ image' = image
    /\ UNCHANGED <<tables, db, meta, nextId, clock, txcount, collation, reserved, pc, rc, rr, now, idx, processed,
                   txopen, txw, txmeta, drawn, result, resp>>

\* image.go:69: the png.Encode of SavePNG writes through the goroutine's
\* own descriptor.  The file ends as the picture, or as no whole picture
\* when the encoding fails or when another goroutine truncates or writes
\* the file meanwhile.
RenderEncode(i) ==
    /\ render[i].st = "encode"
    /\ render' = Remove(render, i)
    /\ \/ image' = Some(SummaryImage(render[i].total, render[i].top))
       \/ image' = Some(BrokenPNG)
    /\ UNCHANGED <<tables, db, meta, nextId, clock, txcount, collation, reserved, pc, rc, rr, now, idx, processed,
                   txopen, txw, txmeta, drawn, result, resp>>

GenerateSummaryImage ==
    \E i \in 1..Len(render) :
        RenderCount(i) \/ RenderTop(i) \/ RenderDraw(i) \/ RenderEncode(i)

\* Directory entries that pass validation and are quoted: Wakanda with two
\* populations, and Zed.
ConcCountries ==
    {[r EXCEPT !.currencies = <<"USD">>] :
        r \in {e \in RawCountries : e.name # "" /\ e.population > 0 /\ e.currencies # <<>>}}

\* Payloads of one entry Wakanda, and of Wakanda and Zed in either order.
ConcPayloads ==
    {<<w>> : w \in {r \in ConcCountries : r.name = "Wakanda"}}
    \cup {<<w, z>> : w \in {r \in ConcCountries : r.name = "Wakanda"},
                     z \in {r \in ConcCountries : r.name = "Zed"}}
    \cup {<<z, w>> : w \in {r \in ConcCountries : r.name = "Wakanda"},
                     z \in {r \in ConcCountries : r.name = "Zed"}}

\* Payloads of the runs whose summary goroutines are scheduled: Wakanda, and
\* Wakanda with Zed.
RenderPayloads ==
    LET w == CHOOSE r \in ConcCountries : r.name = "Wakanda" /\ r.population = 5
        z == CHOOSE r \in ConcCountries : r.name = "Zed"
    IN  {<<w>>, <<w, z>>}

RefreshRender(p) ==
    \/ RefreshFetchCountriesFrom(p, RenderPayloads)
    \/ RefreshFetchRates(p)
    \/ RefreshEnsureTables(p)
    \/ RefreshBeginTx(p)
    \/ RefreshLoop(p)
    \/ RefreshSave(p)
    \/ RefreshCommit(p)
    \/ RefreshReturn(p)

\* One refresh request at a time, with the summary goroutines it launched.
NextRender == RefreshRender(1) \/ GenerateSummaryImage

SpecRender == Init /\ [][NextRender]_vars

----------------------------------------------------------------------------
(* Overlapping requests *)

\* One call of Refresh by invocation p, up to its return value.
RefreshCall(p) ==
    \/ RefreshFetchCountriesFrom(p, ConcPayloads)
    \/ RefreshFetchRates(p)
    \/ RefreshEnsureTables(p)
    \/ RefreshBeginTx(p)
    \/ RefreshLoop(p)
    \/ RefreshSave(p)
    \/ RefreshCommit(p)

\* Two request goroutines call Refresh on the one connection pool, each
\* once; their return values are kept.
NextConc == RefreshCall(1) \/ RefreshCall(2)

SpecConc == Init /\ [][NextConc]_vars

\* Payloads that name the same two countries in either order.
OverlapPayloads ==
    LET w == CHOOSE r \in ConcCountries : r.name = "Wakanda" /\ r.population = 5
        z == CHOOSE r \in ConcCountries : r.name = "Zed"
    IN  {<<w, z>>, <<z, w>>}

\* One call of Refresh by invocation p, up to its return value.
RefreshOverlap(p) ==
    \/ RefreshFetchCountriesFrom(p, OverlapPayloads)
    \/ RefreshFetchRates(p)
    \/ RefreshEnsureTables(p)
    \/ RefreshBeginTx(p)
    \/ RefreshLoop(p)
    \/ RefreshSave(p)
    \/ RefreshCommit(p)

NextOverlap == RefreshOverlap(1) \/ RefreshOverlap(2)

\* Every call in Refresh returns: the HTTP client has a timeout of 20 s, a
\* statement waiting for a row lock ends with the lock, a lock wait timeout
\* or a detected deadlock, and the request goroutines are scheduled.
SpecOverlapFair ==
    Init /\ [][NextOverlap]_vars /\ WF_vars(RefreshOverlap(1)) /\ WF_vars(RefreshOverlap(2))

----------------------------------------------------------------------------
(* The read handlers.  The statements are taken to reach the server: a      *)
(* query fails only when its table does not exist.                          *)

\* The row as rows.Scan and the Valid checks leave it in a Country; a
\* DATETIME comes back as the instant of its whole second.
ScanCountry(r) ==
    [ ID              |-> r.id,
      Name            |-> r.name,
      Capital         |-> r.capital,
      Region          |-> r.region,
      Population      |-> r.population,
      CurrencyCode    |-> r.currency_code,
      ExchangeRate    |-> r.exchange_rate,
      EstimatedGDP    |-> r.estimated_gdp,
      FlagURL         |-> r.flag_url,
      LastRefreshedAt |-> IF r.last_refreshed_at = None THEN None
                          ELSE Some(2 * r.last_refreshed_at[1]) ]

\* ORDER BY on a DOUBLE column: a sorts no later than b when ascending; NULL
\* sorts before every value.
GdpLE(a, b) == a = None \/ (b # None /\ GdpGE(b[1], a[1]))

\* The order GetAll asks for: gdp_desc, gdp_asc, or none for any other token.
OrderBy(out, sort) ==
    \A i, j \in 1..Len(out) : i < j =>
        CASE sort = "gdp_desc" -> GdpLE(out[j].EstimatedGDP, out[i].EstimatedGDP)
          [] sort = "gdp_asc"  -> GdpLE(out[i].EstimatedGDP, out[j].EstimatedGDP)
          [] OTHER             -> TRUE

\* Variant: the filters compare the stored text byte by byte.
GetAllExactMatch(rows, region, currency, sort) ==
    LET matched == {r \in rows :
                      /\ region # "" => r.region = Some(region)
                      /\ currency # "" => r.currency_code = Some(currency)}
        n       == Cardinality(matched)
    IN  { out \in [1..n -> {ScanCountry(r) : r \in matched}] :
            /\ \A i, j \in 1..n : i # j => out[i] # out[j]
            /\ OrderBy(out, sort) }

\* GetAll(db, region, currency, sort): the lists the query may return.  The
\* rows are those the WHERE clause keeps (a NULL column matches no filter);
\* rows the ORDER BY clause does not tell apart come in any order.
GetAll(rows, region, currency, sort) ==
    LET matched == {r \in rows :
                      /\ region # "" =>
                            (r.region # None /\ Lower(r.region[1]) = Lower(region))
                      /\ currency # "" =>
                            (r.currency_code # None
                             /\ Lower(r.currency_code[1]) = Lower(currency))}
        n       == Cardinality(matched)
    IN  { out \in [1..n -> {ScanCountry(r) : r \in matched}] :
            /\ \A i, j \in 1..n : i # j => out[i] # out[j]
            /\ OrderBy(out, sort) }

\* handler.go: writeJSON(w, status, body), kept with the request it answers.
WriteJSON(request, status, body) ==
    [request |-> request, status |-> status, body |-> body]

\* handler.go: writeError(w, status, msg, nil), kept with the request it answers.
WriteErrorTo(request, status, msg) ==
    [request |-> request, status |-> status, error |-> msg]

\* Values of the query parameters region, currency and sort ("" when absent).
RegionParams == {"", "africa", "EUROPE", "Asia"}
CurrencyParams == {"", "usd", "XYZ"}
SortParams == {"", "gdp_desc", "gdp_asc", "name"}

\* handler.go:66-95: GET /countries.
GetAllHandler(p) ==
    /\ pc[p] = "idle"
    /\ \E region \in RegionParams, currency \in CurrencyParams, sort \in SortParams :
         LET request == <<"GET", "/countries", region, currency, sort>> IN
         IF "countries" \notin tables
         THEN resp' = [resp EXCEPT ![p] = WriteErrorTo(request, 500, "Internal server error")]
         ELSE \E list \in GetAll(db, region, currency, sort) :
                 resp' = [resp EXCEPT ![p] = WriteJSON(request, 200, list)]
    /\ UNCHANGED <<tables, db, meta, nextId, clock, txcount, collation, reserved, pc, rc, rr, now, idx, processed,
                   txopen, txw, txmeta, drawn, result, render, image>>

\* Directory entries of four countries: two regions and one without region,
\* a quoted and an unquoted currency.
ReadCountries ==
    { [name |-> "Wakanda", capital |-> "Birnin Zana", region |-> "Africa",
       population |-> 5, flag |-> "https://flags/w.svg", currencies |-> <<"USD">>],
      [name |-> "Zed", capital |-> "Zed City", region |-> "Europe",
       population |-> 5, flag |-> "", currencies |-> <<"USD">>],
      [name |-> "Genovia", capital |-> "", region |-> "Europe",
       population |-> 9, flag |-> "", currencies |-> <<"XYZ">>],
      [name |-> "Narnia", capital |-> "", region |-> "",
       population |-> 9, flag |-> "", currencies |-> <<"USD">>] }

\* The rows earlier runs may have left for those entries, one id per name.
ReadRows ==
    { UpsertRow({}, BuildCountry(e, rates, k, 2),
                CASE e.name = "Wakanda" -> 1 [] e.name = "Zed" -> 2
                  [] e.name = "Genovia" -> 3 [] OTHER -> 4) :
        e \in ReadCountries, rates \in RateMaps, k \in RandDraws }

\* The stores the reads are served from: any of those rows, one per name.
ReadStores ==
    {S \in SUBSET ReadRows : \A r1, r2 \in S : r1.name = r2.name => r1 = r2}

\* Runs have committed some of the rows (or nothing has created the tables
\* yet), and no request is being served.
InitRead ==
    /\ \/ tables = {} /\ db = {} /\ meta = None /\ nextId = 1 /\ clock = 2 /\ txcount = 0
       \/ /\ tables = TableNames
          /\ db \in ReadStores
          /\ meta = IF db = {} THEN None ELSE SaveLastRefreshed(2)
          /\ nextId = 5
          /\ clock = 2
          /\ txcount = 1
    /\ collation = CaseInsensitive
    /\ reserved = [p \in Procs |-> 0]
    /\ pc = [p \in Procs |-> "idle"]
    /\ rc = [p \in Procs |-> <<>>]
    /\ rr = [p \in Procs |-> NoRates]
    /\ now = [p \in Procs |-> 0]
    /\ idx = [p \in Procs |-> 0]
    /\ processed = [p \in Procs |-> 0]
    /\ txopen = [p \in Procs |-> FALSE]
    /\ txw = [p \in Procs |-> {}]
    /\ txmeta = [p \in Procs |-> None]
    /\ drawn = [p \in Procs |-> <<>>]
    /\ result = [p \in Procs |-> NoResult]
    /\ resp = [p \in Procs |-> NoResponse]
    /\ render = <<>>
    /\ image = None

NextRead == GetAllHandler(2)

SpecRead == InitRead /\ [][NextRead]_vars

----------------------------------------------------------------------------
(* The single-record, status and administration handlers *)

\* Values of the path variable {name}: another spelling of a stored name,
\* a stored name, and a name no run stores.
NameParams == {"wakanda", "Zed", "Genovia"}

\* handler.go:108-125: GET /countries/{name}.
GetByNameHandler(p) ==
    /\ pc[p] = "idle"
    /\ \E name \in NameParams :
         LET request == <<"GET", "/countries/{name}", name>> IN
         IF "countries" \notin tables
         THEN resp' = [resp EXCEPT ![p] = WriteErrorTo(request, 500, "Internal server error")]
         ELSE IF GetByName(db, name) = {}
         THEN resp' = [resp EXCEPT ![p] = WriteErrorTo(request, 404, "Country not found")]
         ELSE \E r \in GetByName(db, name) :
                 resp' = [resp EXCEPT ![p] = WriteJSON(request, 200, ScanCountry(r))]
    /\ UNCHANGED <<tables, db, meta, nextId, clock, txcount, collation, reserved, pc, rc, rr, now, idx, processed,
                   txopen, txw, txmeta, drawn, result, render, image>>

\* The DELETE scans the table and locks the rows it reads: it waits while
\* another transaction holds a row it has written.
DeleteLockFree(p) == \A q \in Procs \ {p} : txw[q] = {}

\* handler.go:127-142: DELETE /countries/{name}; DeleteByName returns
\* RowsAffected > 0, or the error of the statement.
DeleteHandler(p) ==
    /\ pc[p] = "idle"
    /\ \E name \in NameParams :
         LET request == <<"DELETE", "/countries/{name}", name>>
             left    == DeleteByName(db, name)
         IN  IF "countries" \notin tables
             THEN /\ resp' = [resp EXCEPT ![p] =
                                 WriteErrorTo(request, 500, "Internal server error")]
                  /\ db' = db
             ELSE IF ~DeleteLockFree(p)
             THEN \* the lock wait times out
                  /\ resp' = [resp EXCEPT ![p] =
                                 WriteErrorTo(request, 500, "Internal server error")]
                  /\ db' = db
             ELSE /\ db' = left
                  /\ resp' = [resp EXCEPT ![p] =
                                 IF Cardinality(db) - Cardinality(left) > 0
                                 THEN WriteJSON(request, 200, [message |-> "deleted"])
                                 ELSE WriteErrorTo(request, 404, "Country not found")]
    /\ UNCHANGED <<tables, meta, nextId, clock, txcount, collation, reserved, pc, rc, rr, now, idx, processed,
                   txopen, txw, txmeta, drawn, result, render, image>>

\* handler.go:144-151: GET /status, the count; the handler keeps it while
\* nothing is written yet (status 0).
StatusCount(p) ==
    /\ pc[p] = "idle"
    /\ LET request == <<"GET", "/status">> IN
       IF "countries" \notin tables
       THEN /\ resp' = [resp EXCEPT ![p] = WriteErrorTo(request, 500, "Internal server error")]
            /\ pc' = pc
       ELSE /\ resp' = [resp EXCEPT ![p] =
                           WriteJSON(request, 0, [total_countries |-> TotalCount(db)])]
            /\ pc' = [pc EXCEPT ![p] = "status"]
    /\ UNCHANGED <<tables, db, meta, nextId, clock, txcount, collation, reserved, rc, rr, now, idx, processed,
                   txopen, txw, txmeta, drawn, result, render, image>>

\* handler.go:152-165: GET /status, GetLastRefreshed and the response; the
\* query of GetLastRefreshed fails when the table metadata does not exist.
StatusLast(p) ==
    /\ pc[p] = "status"
    /\ pc' = [pc EXCEPT ![p] = "idle"]
    /\ LET request == <<"GET", "/status">>
           last    == GetLastRefreshed(meta)
       IN  IF "metadata" \notin tables
           THEN resp' = [resp EXCEPT ![p] =
                            WriteErrorTo(request, 500, "Internal server error")]
           ELSE resp' = [resp EXCEPT ![p] =
                            WriteJSON(request, 200,
                                      [total_countries   |-> resp[p].body.total_countries,
                                       last_refreshed_at |->
                                           IF last = None THEN None
                                           ELSE Some(FormatRFC3339(last[1]))])]
    /\ UNCHANGED <<tables, db, meta, nextId, clock, txcount, collation, reserved, rc, rr, now, idx, processed,
                   txopen, txw, txmeta, drawn, result, render, image>>

StatusHandler(p) == StatusCount(p) \/ StatusLast(p)

\* handler.go:167-181 (POST /drop-tables, registered when not in
\* production), DropTables first statement: DROP TABLE IF EXISTS metadata.
\* The statement waits for the transactions that have written to metadata;
\* its error is answered with 500.
DropMetadata(p) ==
    /\ pc[p] = "idle"
    /\ LET request == <<"POST", "/drop-tables">> IN
       \/ /\ \A q \in Procs \ {p} : txmeta[q] = None
          /\ tables' = DropTableIfExists(tables, "metadata")
          /\ meta' = None
          /\ pc' = [pc EXCEPT ![p] = "drop_countries"]
          /\ resp' = [resp EXCEPT ![p] = WriteJSON(request, 0, [message |-> ""])]
       \/ /\ resp' = [resp EXCEPT ![p] = WriteErrorTo(request, 500, "Failed to drop tables")]
          /\ UNCHANGED <<tables, meta, pc>>
    /\ UNCHANGED <<db, nextId, clock, txcount, collation, reserved, rc, rr, now, idx, processed,
                   txopen, txw, txmeta, drawn, result, render, image>>

\* DropTables second statement: DROP TABLE IF EXISTS countries, and the
\* response.  The statement waits for the transactions that have written to
\* countries or have a statement on it in progress; the dropped table takes
\* its rows and its id counter along.
DropCountries(p) ==
    /\ pc[p] = "drop_countries"
    /\ pc' = [pc EXCEPT ![p] = "idle"]
    /\ LET request == <<"POST", "/drop-tables">> IN
       \/ /\ \A q \in Procs \ {p} : txw[q] = {} /\ reserved[q] = 0
          /\ tables' = DropTableIfExists(tables, "countries")
          /\ db' = {}
          /\ nextId' = 1
          /\ resp' = [resp EXCEPT ![p] =
                         WriteJSON(request, 200, [message |-> "Tables dropped successfully"])]
       \/ /\ resp' = [resp EXCEPT ![p] = WriteErrorTo(request, 500, "Failed to drop tables")]
          /\ UNCHANGED <<tables, db, nextId>>
    /\ UNCHANGED <<meta, clock, txcount, collation, reserved, rc, rr, now, idx, processed,
                   txopen, txw, txmeta, drawn, result, render, image>>

\* handler.go:167-181: POST /drop-tables, one step per statement of DropTables.
DropTablesHandler(p) == DropMetadata(p) \/ DropCountries(p)

\* Payloads of the runs that share the store with the administration
\* requests: Wakanda, Zed, and Zed after a Wakanda that is skipped.
AdminPayloads ==
    LET w  == CHOOSE r \in RawCountries :
                 r.name = "Wakanda" /\ r.population = 5 /\ r.currencies = <<"USD">>
        w0 == [w EXCEPT !.population = 0]
        z  == CHOOSE r \in RawCountries : r.name = "Zed"
    IN  {<<w>>, <<z>>, <<w0, z>>}

RefreshAdmin(p) ==
    \/ RefreshFetchCountriesFrom(p, AdminPayloads)
    \/ RefreshFetchRates(p)
    \/ RefreshEnsureTables(p)
    \/ RefreshBeginTx(p)
    \/ RefreshLoop(p)
    \/ RefreshSave(p)
    \/ RefreshCommit(p)
    \/ RefreshReturn(p)

\* Refresh requests served one at a time by one goroutine, single-record
\* and administration requests by another.
NextAdmin ==
    \/ RefreshAdmin(1)
    \/ GetByNameHandler(2)
    \/ DeleteHandler(2)
    \/ DropTablesHandler(2)

SpecAdmin == Init /\ [][NextAdmin]_vars

\* Refresh requests served one at a time by one goroutine, status requests
\* by another.
NextStatus == RefreshAdmin(1) \/ StatusHandler(2)

SpecStatus == Init /\ [][NextStatus]_vars

----------------------------------------------------------------------------
(* Vocabulary of the properties *)

\* Invocation p took the step.
Moved(p) == pc'[p] # pc[p] \/ idx'[p] # idx[p]

\* The step is the successful tx.Commit of invocation p.
CommitOK(p) == pc[p] = "commit" /\ pc'[p] = "done" /\ result'[p].err = ""

\* The step returns an error from invocation p.
Fails(p) == pc[p] # "done" /\ pc'[p] = "done" /\ result'[p].err # ""

FirstCode(rcountry) ==
    IF Len(rcountry.currencies) > 0 THEN rcountry.currencies[1] ELSE ""

\* A directory entry that passes validation: non-empty name, positive
\* population, a non-empty first currency code.
PassesValidation(rcountry) ==
    rcountry.name # "" /\ rcountry.population > 0 /\ FirstCode(rcountry) # ""

\* No later entry of the list is upserted under the same name.
LastOfName(list, i) ==
    \A j \in (i + 1)..Len(list) :
        PassesValidation(list[j]) => list[j].name # list[i].name

RowsNamed(rows, name) == {r \in rows : r.name = name}

\* Two texts are equal ignoring case.
EqualFold(a, b) == Lower(a) = Lower(b)

----------------------------------------------------------------------------
(* C1..C3: aborts and atomicity *)

\* C1: while Refresh is fetching, no step of it touches the store: the tables
\* that exist, the rows, the metadata and the id counter stay as they are and
\* no transaction is opened; a failure of either fetch returns an
\* ExternalError naming the source.
C1_FetchFailureLeavesStoreUntouched ==
    [][\A p \in Procs :
         (pc[p] \in {"idle", "rates"} /\ Moved(p)) =>
            /\ tables' = tables /\ db' = db /\ meta' = meta /\ nextId' = nextId
            /\ ~txopen'[p] /\ txw'[p] = {} /\ txmeta'[p] = None
            /\ pc'[p] = "done" =>
                  /\ result'[p].err = "ExternalError"
                  /\ result'[p].api =
                        (IF pc[p] = "idle" THEN "restcountries" ELSE "exchangerates")]_vars

\* C1 witness: the rate feed failed in a run that started from a non-empty store.
C1_Witness ==
    /\ pc[1] = "done"
    /\ result[1] = ExternalError("exchangerates")
    /\ Len(rc[1]) > 0
    /\ db # {} /\ meta # None

\* C2: from BeginTx to the return, a step of Refresh other than the
\* successful commit leaves the committed rows and metadata as they are, and
\* a failing UpsertCountry, SaveLastRefreshed or Commit returns that error
\* with every pending write of the run dropped and the transaction closed.
C2_StoreErrorDiscardsRun ==
    [][\A p \in Procs :
         (pc[p] \in {"loop", "commit"} /\ Moved(p) /\ ~CommitOK(p)) =>
            /\ db' = db /\ meta' = meta
            /\ Fails(p) =>
                  /\ result'[p].err \in {"UpsertCountry", "SaveLastRefreshed", "Commit"}
                  /\ txw'[p] = {} /\ txmeta'[p] = None /\ ~txopen'[p]]_vars

\* C2 witness: the upsert of the second record failed after the first was
\* upserted, in a run over a non-empty store.
C2_Witness ==
    /\ pc[1] = "done"
    /\ result[1].err = "UpsertCountry"
    /\ idx[1] = 2 /\ processed[1] = 1
    /\ db # {} /\ txw[1] = {}

\* C3: a step of Refresh changes what the reads return only at its commit,
\* and then to the rows with every pending row of the run installed together
\* with the run's metadata timestamp.
C3_ReadsSeeOldOrNew ==
    [][\A p \in Procs :
         Moved(p) =>
            \/ StoreReads(db', meta') = StoreReads(db, meta)
            \/ /\ CommitOK(p)
               /\ txw[p] \subseteq db'
               /\ \A r \in db' \ txw[p] : r \in db
               /\ meta' = Some(FormatRFC3339(now[p]))]_vars

\* C3 witness: a run holds pending rows that differ from the committed ones.
C3_Witness ==
    /\ pc[1] = "commit"
    /\ db # {}
    /\ txw[1] # {} /\ txw[1] \cap db = {}
    /\ txmeta[1] # None

----------------------------------------------------------------------------
(* C4..C6: validation skips *)

\* The step is an iteration of the range loop of invocation p.
LoopOn(p) == pc[p] = "loop" /\ idx[p] <= Len(rc[p]) /\ Moved(p)

\* The currency_code column the entry would be stored with.
CodeColumn(rcountry) ==
    IF FirstCode(rcountry) = "" THEN None ELSE Some(FirstCode(rcountry))

\* C4: an entry that fails validation leaves the run in its loop with its
\* transaction open and its pending rows intact, and at the commit every
\* entry of the payload that passes validation has a row under its name while
\* no row carries the values of an entry that fails it.
C4_InvalidRecordIsSkipped ==
    [][\A p \in Procs :
         /\ (LoopOn(p) /\ ~PassesValidation(rc[p][idx[p]])) =>
               /\ pc'[p] = "loop" /\ idx'[p] = idx[p] + 1
               /\ txopen'[p] /\ txw'[p] = txw[p] /\ txmeta'[p] = txmeta[p]
         /\ CommitOK(p) =>
               \A i \in 1..Len(rc[p]) :
                  IF PassesValidation(rc[p][i])
                  THEN RowsNamed(db', rc[p][i].name) # {}
                  ELSE \A r \in db' :
                          ~ /\ r.name = rc[p][i].name
                            /\ r.population = rc[p][i].population
                            /\ r.currency_code = CodeColumn(rc[p][i])]_vars

\* C4 witness: a committed run whose payload holds a population-0 entry
\* before a valid one; the valid one is stored.
C4_Witness ==
    /\ pc[1] = "done" /\ result[1].err = ""
    /\ Len(rc[1]) = 2
    /\ rc[1][1].population = 0 /\ rc[1][1].name = "Wakanda"
    /\ PassesValidation(rc[1][2]) /\ rc[1][2].name = "Zed"
    /\ RowsNamed(db, "Zed") # {} /\ RowsNamed(db, "Wakanda") = {}

\* C5 as stated: at the commit, the row stored under the name of a skipped
\* entry is the row that was stored before the run.
C5_SkippedNameUntouched ==
    [][\A p \in Procs :
         CommitOK(p) =>
            \A i \in 1..Len(rc[p]) :
               (~PassesValidation(rc[p][i]) /\ RowsNamed(db, rc[p][i].name) # {}) =>
                  RowsNamed(db', rc[p][i].name) = RowsNamed(db, rc[p][i].name)]_vars

\* Another entry of the payload is upserted under the name of entry i.
NameUpserted(list, i) ==
    \E j \in 1..Len(list) :
        PassesValidation(list[j]) /\ NameKey(list[j].name) = NameKey(list[i].name)

\* C5 amended: at the commit, the rows stored under the name of a skipped
\* entry are those stored before the run (none, if there was none), unless
\* another entry of the same payload with that name passes validation.
C5_SkippedNameUntouchedUnlessUpserted ==
    [][\A p \in Procs :
         CommitOK(p) =>
            \A i \in 1..Len(rc[p]) :
               (~PassesValidation(rc[p][i]) /\ ~NameUpserted(rc[p], i)) =>
                  RowsNamed(db', rc[p][i].name) = RowsNamed(db, rc[p][i].name)]_vars

\* C5 witness: a committed run skipped an entry named Wakanda and the row
\* Wakanda of an earlier run is still there with its earlier timestamp.
C5_Witness ==
    /\ pc[1] = "done" /\ result[1].err = ""
    /\ \E i \in 1..Len(rc[1]) :
          /\ rc[1][i].name = "Wakanda"
          /\ ~PassesValidation(rc[1][i]) /\ ~NameUpserted(rc[1], i)
    /\ \E r \in RowsNamed(db, "Wakanda") :
          r.last_refreshed_at # Some(ToDatetime(now[1]))

\* C6: the counter grows by one exactly on the entries that pass validation,
\* and the total of a successful run is the number of entries of the payload
\* that pass validation.
C6_TotalCountsValidRecords ==
    [][\A p \in Procs :
         /\ (LoopOn(p) /\ pc'[p] = "loop") =>
               processed'[p] =
                  processed[p] + (IF PassesValidation(rc[p][idx[p]]) THEN 1 ELSE 0)
         /\ CommitOK(p) =>
               result'[p].total =
                  Cardinality({i \in 1..Len(rc[p]) : PassesValidation(rc[p][i])})]_vars

\* C6 witness: a run over two entries, one of them skipped, returned Total 1.
C6_Witness ==
    /\ pc[1] = "done" /\ result[1].err = ""
    /\ Len(rc[1]) = 2
    /\ \E i \in 1..2 : ~PassesValidation(rc[1][i])
    /\ result[1].total = 1

----------------------------------------------------------------------------
(* C7..C9: currency, rate and estimate *)

\* C7 as stated: at the commit, an entry with a positive population and an
\* empty currencies array (the last of its name in the payload) is stored
\* with currency_code NULL, exchange_rate NULL and estimated_gdp 0.
C7_NoCurrencyStoredWithZeroGdp ==
    [][\A p \in Procs :
         CommitOK(p) =>
            \A i \in 1..Len(rc[p]) :
               ( /\ rc[p][i].name # "" /\ rc[p][i].population > 0
                 /\ rc[p][i].currencies = <<>>
                 /\ \A j \in (i + 1)..Len(rc[p]) : rc[p][j].name # rc[p][i].name ) =>
                  \E r \in RowsNamed(db', rc[p][i].name) :
                     /\ r.population = rc[p][i].population
                     /\ r.currency_code = None
                     /\ r.exchange_rate = None
                     /\ r.estimated_gdp = Some(<<0, 1>>)]_vars

\* C8: an entry that passes validation and whose first currency code is not
\* quoted is counted, and at the commit (if it is the last of its name) its
\* row holds the code, no exchange rate and no estimate.
C8_UnknownCurrencyStoredWithNulls ==
    [][\A p \in Procs :
         /\ ( /\ LoopOn(p) /\ pc'[p] = "loop"
              /\ PassesValidation(rc[p][idx[p]])
              /\ FirstCode(rc[p][idx[p]]) \notin DOMAIN rr[p] ) =>
               processed'[p] = processed[p] + 1
         /\ CommitOK(p) =>
               \A i \in 1..Len(rc[p]) :
                  ( /\ PassesValidation(rc[p][i])
                    /\ FirstCode(rc[p][i]) \notin DOMAIN rr[p]
                    /\ LastOfName(rc[p], i) ) =>
                     \E r \in RowsNamed(db', rc[p][i].name) :
                        /\ r.population = rc[p][i].population
                        /\ r.currency_code = Some(FirstCode(rc[p][i]))
                        /\ r.exchange_rate = None
                        /\ r.estimated_gdp = None]_vars

\* C8 witness: a committed run stored a row with currency XYZ.
C8_Witness ==
    /\ pc[1] = "done" /\ result[1].err = "" /\ result[1].total >= 1
    /\ \E i \in 1..Len(rc[1]) : rc[1][i].currencies = <<"XYZ">> /\ LastOfName(rc[1], i)
    /\ \E r \in db :
          r.currency_code = Some("XYZ") /\ r.exchange_rate = None /\ r.estimated_gdp = None

\* The entry of the payload of invocation p a pending row was written from.
SourceOf(p, r) == CHOOSE e \in {rc[p][i] : i \in 1..Len(rc[p])} : e.name = r.name

\* C9: a row written for an entry whose first currency code is quoted at
\* rate q holds exchange_rate q and estimated_gdp = population * m / q for an
\* integer m with 1000 <= m <= 2000.
C9_EstimateWithinMultiplierRange ==
    \A r \in txw[1] :
       LET e == SourceOf(1, r)
           q == rr[1][FirstCode(e)]
           n == r.estimated_gdp[1][1]
           d == r.estimated_gdp[1][2]
           m == (n * q) \div (e.population * d)
       IN  FirstCode(e) \in DOMAIN rr[1] =>
              /\ r.exchange_rate = Some(<<q, 1>>)
              /\ r.estimated_gdp # None
              /\ n * q = e.population * m * d
              /\ 1000 <= m /\ m <= 2000

\* C9 witness: population 1,000,000 at rate 2 stored once with the smallest
\* multiplier and once with the largest.
C9_Witness ==
    /\ \E r \in txw[1] : r.population = 1000000 /\ r.exchange_rate = Some(<<2, 1>>)
                          /\ r.estimated_gdp = Some(<<500000000, 1>>)
    /\ \E r \in txw[1] : r.population = 1000000 /\ r.exchange_rate = Some(<<2, 1>>)
                          /\ r.estimated_gdp = Some(<<1000000000, 1>>)

----------------------------------------------------------------------------
(* C10: upsert by name *)

UniqueNames(rows) == \A r1, r2 \in rows : r1.name = r2.name => r1 = r2

\* C10: the committed table never holds two rows with one name, and at the
\* commit of a run the one row under a name the run upserted carries the
\* values of the last entry of that name in the run's payload and the run's
\* timestamp, whatever an earlier run stored there.
C10_UpsertByName ==
    [][/\ UniqueNames(db')
       /\ \A p \in Procs :
            CommitOK(p) =>
               \A i \in 1..Len(rc[p]) :
                  (PassesValidation(rc[p][i]) /\ LastOfName(rc[p], i)) =>
                     \E r \in db' :
                        /\ RowsNamed(db', rc[p][i].name) = {r}
                        /\ r.population = rc[p][i].population
                        /\ r.currency_code = CodeColumn(rc[p][i])
                        /\ r.capital = (IF rc[p][i].capital = "" THEN None
                                        ELSE Some(rc[p][i].capital))
                        /\ r.last_refreshed_at = Some(ToDatetime(now[p]))
                        /\ \A o \in RowsNamed(db, rc[p][i].name) : o.id = r.id]_vars

\* C10 witness: a first run inserted Wakanda and then Zed, a second run
\* upserted Wakanda with population 9; one row Wakanda is left, with the
\* second run's values.
C10_Witness ==
    /\ pc[1] = "done" /\ result[1].err = ""
    /\ Len(rc[1]) = 1 /\ rc[1][1].name = "Wakanda" /\ rc[1][1].population = 9
    /\ \E w \in db, z \in db :
          /\ db = {w, z}
          /\ w.name = "Wakanda" /\ w.population = 9 /\ w.id = 1
          /\ w.last_refreshed_at = Some(ToDatetime(now[1]))
          /\ z.name = "Zed" /\ z.id = 2
          /\ z.last_refreshed_at # w.last_refreshed_at

----------------------------------------------------------------------------
(* C11: identity without regard to case *)

\* C11 as stated: the committed table never holds two rows whose names are
\* equal ignoring case, and at the commit of a run every entry that passes
\* validation is stored in one row only among the rows whose names equal its
\* name ignoring case, which is the row stored before the run (same id, same
\* stored spelling) if there was one.
C11_IdentityIgnoresCase ==
    [][/\ \A r1, r2 \in db' : EqualFold(r1.name, r2.name) => r1 = r2
       /\ \A p \in Procs :
            CommitOK(p) =>
               \A i \in 1..Len(rc[p]) :
                  PassesValidation(rc[p][i]) =>
                     \E r \in db' :
                        /\ \A x \in db' : EqualFold(x.name, rc[p][i].name) <=> x = r
                        /\ \A o \in db :
                              EqualFold(o.name, rc[p][i].name) =>
                                 (r.id = o.id /\ r.name = o.name)]_vars

----------------------------------------------------------------------------
(* C12: the same data and the same random outcomes *)

\* The columns of a row other than id and last_refreshed_at.
Columns(r) ==
    [name |-> r.name, capital |-> r.capital, region |-> r.region,
     population |-> r.population, currency_code |-> r.currency_code,
     exchange_rate |-> r.exchange_rate, estimated_gdp |-> r.estimated_gdp,
     flag_url |-> r.flag_url]

\* C12: when a second run commits with the payload, the rate map and the
\* sequence of random outcomes of a first run that committed before it, the
\* table holds the same rows as before in every column but
\* last_refreshed_at, no row is added or removed, and last_refreshed_at and
\* the metadata timestamp do not go back.
C12_SameDataSameSeed ==
    [][( /\ CommitOK(2)
         /\ pc[1] = "done" /\ result[1].err = ""
         /\ rc[2] = rc[1] /\ rr[2] = rr[1] /\ drawn[2] = drawn[1] ) =>
          /\ Cardinality(db') = Cardinality(db)
          /\ \A n \in db' :
                \E o \in db :
                   /\ o.id = n.id
                   /\ Columns(o) = Columns(n)
                   /\ o.last_refreshed_at[1] <= n.last_refreshed_at[1]
          /\ now[2] >= now[1]
          /\ meta # None /\ meta[1] <= meta'[1]]_vars

\* C12 witness: both runs committed the same payload with the same random
\* outcome; the row carries the second run's timestamp.
C12_Witness ==
    /\ pc[1] = "done" /\ result[1].err = ""
    /\ pc[2] = "done" /\ result[2].err = ""
    /\ rc[2] = rc[1] /\ rr[2] = rr[1]
    /\ drawn[2] = drawn[1] /\ Len(drawn[1]) > 0
    /\ \E r \in db :
          /\ r.estimated_gdp # None /\ r.estimated_gdp # Some(<<0, 1>>)
          /\ r.last_refreshed_at = Some(ToDatetime(now[2]))
          /\ r.last_refreshed_at # Some(ToDatetime(now[1]))

----------------------------------------------------------------------------
(* C13: the metadata timestamp belongs to the run's transaction *)

\* C13: SaveLastRefreshed leaves the committed metadata as it is and puts the
\* run's timestamp among the pending writes; the committed metadata changes
\* only in the step of a successful commit, which installs the run's
\* timestamp together with every pending row of the run; a failing step
\* leaves the metadata unchanged.
C13_MetadataInsideTransaction ==
    [][/\ meta' # meta => \E p \in Procs : CommitOK(p)
       /\ \A p \in Procs :
            /\ (pc[p] = "loop" /\ pc'[p] = "commit") =>
                  /\ meta' = meta
                  /\ txmeta'[p] = Some(FormatRFC3339(now[p]))
            /\ CommitOK(p) =>
                  /\ meta' = txmeta[p]
                  /\ meta' = Some(FormatRFC3339(now[p]))
                  /\ txw[p] \subseteq db'
            /\ Fails(p) => meta' = meta /\ txmeta'[p] = None]_vars

\* C13 witness: the commit of a first run failed after the run had upserted
\* a row and written its timestamp; no metadata row and no country row exist.
C13_Witness ==
    /\ pc[1] = "done" /\ result[1].err = "Commit"
    /\ processed[1] >= 1
    /\ meta = None /\ db = {}
    /\ txmeta[1] = None

----------------------------------------------------------------------------
(* C14: the summary goroutine *)

\* The step is a step of a summary goroutine.
RenderStep == render' # render /\ Len(render') <= Len(render)

\* C14: a summary goroutine is launched exactly in the step of a successful
\* commit, one per commit, and that same step returns the run's result; no
\* failing step launches one; a step of a summary goroutine, whether it
\* succeeds or fails, changes neither the position, the result or the
\* response of an invocation nor the store, and launches no goroutine.
C14_RenderOnlyAfterCommit ==
    [][/\ Len(render') > Len(render) => \E p \in Procs : CommitOK(p)
       /\ \A p \in Procs :
            /\ CommitOK(p) =>
                  /\ render' = Append(render, NewTask)
                  /\ result'[p] = RefreshResult(processed[p], now[p])
            /\ Fails(p) => render' = render
            /\ (Moved(p) /\ ~CommitOK(p)) => render' = render
       /\ RenderStep =>
            /\ pc' = pc /\ result' = result /\ resp' = resp
            /\ db' = db /\ meta' = meta
            /\ Cardinality({i \in DOMAIN render' : render'[i].st = "count"})
                  <= Cardinality({i \in DOMAIN render : render[i].st = "count"})]_vars

\* C14 witness: the request was answered 200 and the goroutine of its run
\* has ended without writing the file.
C14_Witness ==
    /\ pc[1] = "idle"
    /\ resp[1].status = 200 /\ resp[1].total >= 1
    /\ db # {}
    /\ render = <<>> /\ image = None

----------------------------------------------------------------------------
(* C15: the phases of a run *)

\* The phase of a run at position at with loop index i over n entries,
\* having returned err: Fetching covers both GETs, Preparing the schema
\* bootstrap and BeginTx, Merging the loop, Committing the metadata write
\* and tx.Commit.
PhaseAt(at, i, n, err) ==
    CASE at \in {"idle", "rates"}   -> "Fetching"
      [] at \in {"ensure", "ensure_metadata", "begin"} -> "Preparing"
      [] at = "loop" /\ i <= n      -> "Merging"
      [] at = "loop" /\ i > n       -> "Committing"
      [] at = "commit"              -> "Committing"
      [] at = "done" /\ err = ""    -> "Done"
      [] OTHER                      -> "Aborted"

Phase(p) == PhaseAt(pc[p], idx[p], Len(rc[p]), result[p].err)

PhaseAfter(p) == PhaseAt(pc'[p], idx'[p], Len(rc'[p]), result'[p].err)

\* The phases a step may lead to without aborting; the merge of an empty
\* payload has no step.
Successors(ph, n) ==
    CASE ph = "Fetching"   -> {"Fetching", "Preparing"}
      [] ph = "Preparing"  -> {"Preparing", "Merging"}
                              \cup (IF n = 0 THEN {"Committing"} ELSE {})
      [] ph = "Merging"    -> {"Merging", "Committing"}
      [] ph = "Committing" -> {"Committing", "Done"}
      [] OTHER             -> {}

\* A step of run p that has not returned keeps to the order of the phases
\* or aborts, and the step into Done launches the summary goroutine.
FollowsPhases(p) ==
    (Moved(p) /\ pc[p] # "done") =>
       /\ PhaseAfter(p) \in Successors(Phase(p), Len(rc'[p])) \cup {"Aborted"}
       /\ PhaseAfter(p) = "Done" => render' = Append(render, NewTask)

\* C15 as stated: the steps of a run keep to the order Fetching, Preparing,
\* Merging, Committing, Done (with the summary goroutine launched), and a
\* run aborts only from Fetching or Committing.
C15_AbortOnlyFromFetchingOrCommitting ==
    [][\A p \in Procs :
         /\ FollowsPhases(p)
         /\ (Moved(p) /\ PhaseAfter(p) = "Aborted") =>
               Phase(p) \in {"Fetching", "Committing"}]_vars

\* C15 amended: the steps of a run keep to the order of the phases; a run
\* aborts from Fetching with an ExternalError, from Preparing with the error
\* of EnsureTables or BeginTx, from Merging with the error of UpsertCountry
\* and from Committing with the error of SaveLastRefreshed or tx.Commit,
\* and a run that has returned never aborts.
C15_AbortFromEveryPhaseBeforeDone ==
    [][\A p \in Procs :
         /\ FollowsPhases(p)
         /\ (Moved(p) /\ PhaseAfter(p) = "Aborted") =>
               result'[p].err \in
                  CASE Phase(p) = "Fetching"   -> {"ExternalError"}
                    [] Phase(p) = "Preparing"  -> {"EnsureTables", "BeginTx"}
                    [] Phase(p) = "Merging"    -> {"UpsertCountry"}
                    [] Phase(p) = "Committing" -> {"SaveLastRefreshed", "Commit"}
                    [] OTHER                   -> {}]_vars

\* C15 witness: a run over a non-empty store aborted in Merging, on its
\* first upsert.
C15_Witness ==
    /\ pc[1] = "done" /\ Phase(1) = "Aborted"
    /\ result[1].err = "UpsertCountry"
    /\ idx[1] = 1 /\ Len(rc[1]) >= 1
    /\ db # {} /\ ~txopen[1]

----------------------------------------------------------------------------
(* C16..C17: what the refresh endpoint answers *)

\* The step in which the handler of invocation p writes its response.
Answers(p) == pc[p] = "done" /\ pc'[p] = "idle"

\* C16: a failing fetch of the directory (of the rate feed) is answered 503
\* with details naming restcountries (exchangerates); a failure of
\* EnsureTables, BeginTx, UpsertCountry, SaveLastRefreshed or tx.Commit is
\* answered 500 with the generic message and no details; a successful run
\* is answered 200 with its count and its timestamp in whole seconds.
C16_RefreshResponses ==
    [][\A p \in Procs :
         /\ Fails(p) =>
               IF pc[p] \in {"idle", "rates"}
               THEN result'[p].err = "ExternalError"
                    /\ result'[p].api = (IF pc[p] = "idle" THEN "restcountries"
                                                            ELSE "exchangerates")
               ELSE result'[p].err \in {"EnsureTables", "BeginTx", "UpsertCountry",
                                         "SaveLastRefreshed", "Commit"}
         /\ Answers(p) =>
               CASE result[p].err = "ExternalError" ->
                       /\ resp'[p].status = 503
                       /\ resp'[p].error = "External data source unavailable"
                       /\ resp'[p].details =
                             Some(<<"Could not fetch data from", result[p].api>>)
                 [] result[p].err = "" ->
                       /\ resp'[p].status = 200
                       /\ resp'[p].message = "refreshed"
                       /\ resp'[p].total = result[p].total
                       /\ resp'[p].last_refreshed_at = Some(result[p].last \div 2)
                 [] OTHER ->
                       /\ resp'[p].status = 500
                       /\ resp'[p].error = "Internal server error"
                       /\ resp'[p].details = None]_vars

\* C16 witness: over a non-empty store, a request whose rate fetch failed was
\* answered 503 naming exchangerates.
C16_Witness ==
    /\ pc[1] = "idle"
    /\ resp[1].status = 503
    /\ resp[1].details = Some(<<"Could not fetch data from", "exchangerates">>)
    /\ db # {} /\ meta # None

\* C17: no invocation of Refresh holds a ValidationError as its return
\* value, and no response of the refresh endpoint has status 400.
C17_NoValidationErrorReturned ==
    \A p \in Procs :
       /\ result[p].err # "ValidationError"
       /\ resp[p].status # 400

\* C17 witness: a run whose only entry, Wakanda with population 0, fails
\* validation has returned success with Total 0.
C17_Witness ==
    /\ pc[1] = "done" /\ result[1].err = "" /\ result[1].total = 0
    /\ Len(rc[1]) = 1
    /\ rc[1][1].name = "Wakanda" /\ rc[1][1].population = 0

----------------------------------------------------------------------------
(* C18: the timestamp of a run *)

\* The instant a stored value of whole seconds stands for.
SecondsToInstant(v) == IF v = None THEN None ELSE Some(2 * v[1])

\* C18 as stated: at the commit of a run, the instant returned to the caller
\* is the instant the metadata written by the run holds and the instant
\* last_refreshed_at holds in every row the run upserted, and it is not
\* earlier than the latest instant seen so far.
C18_ReportedIsCommitTimestamp ==
    [][\A p \in Procs :
         CommitOK(p) =>
            /\ SecondsToInstant(meta') = Some(result'[p].last)
            /\ \A r \in txw[p] :
                  SecondsToInstant(r.last_refreshed_at) = Some(result'[p].last)
            /\ result'[p].last >= clock]_vars

----------------------------------------------------------------------------
(* C19: overlapping runs *)

\* C19: two open transactions never both hold a pending row of one name,
\* and when a run commits after another run that has returned success, each
\* name both runs upserted is stored in one row that keeps its id and
\* carries the population, the capital and the timestamp the committing run
\* upserted last under that name.
C19_LastCommitWins ==
    [][\A p \in Procs : \A q \in Procs \ {p} :
         /\ Keys(txw'[p]) \cap Keys(txw'[q]) = {}
         /\ (CommitOK(p) /\ pc[q] = "done" /\ result[q].err = "") =>
               \A i \in 1..Len(rc[p]) :
                  ( /\ PassesValidation(rc[p][i]) /\ LastOfName(rc[p], i)
                    /\ \E j \in 1..Len(rc[q]) :
                          PassesValidation(rc[q][j]) /\ rc[q][j].name = rc[p][i].name ) =>
                     \E r \in db' :
                        /\ RowsNamed(db', rc[p][i].name) = {r}
                        /\ RowsNamed(db, rc[p][i].name) # {}
                        /\ \A o \in RowsNamed(db, rc[p][i].name) : o.id = r.id
                        /\ r.population = rc[p][i].population
                        /\ r.capital = (IF rc[p][i].capital = "" THEN None
                                        ELSE Some(rc[p][i].capital))
                        /\ r.last_refreshed_at = Some(ToDatetime(now[p]))]_vars

\* C19 witness: run 2 opened its transaction first; its upsert of Wakanda
\* (population 9) found the row held by run 1, reserved id 2 and waited
\* while run 1 went on to insert Zed with id 3 and committed Wakanda with
\* population 5; run 2 has then updated row 1 and is about to commit.
C19_Witness ==
    /\ pc[1] = "done" /\ result[1].err = ""
    /\ txopen[2] /\ pc[2] = "commit"
    /\ now[2] < now[1]
    /\ Len(rc[1]) = 2 /\ Len(rc[2]) = 1
    /\ nextId = 4
    /\ \E w, z \in db :
          /\ db = {w, z}
          /\ w.name = "Wakanda" /\ w.id = 1 /\ w.population = 5
          /\ w.last_refreshed_at = Some(ToDatetime(now[1]))
          /\ z.name = "Zed" /\ z.id = 3
    /\ \E r \in txw[2] : r.name = "Wakanda" /\ r.id = 1 /\ r.population = 9

----------------------------------------------------------------------------
(* C20: what one upsert writes *)

\* A string field of a directory entry as a nullable column.
Nullable(str) == IF str = "" THEN None ELSE Some(str)

\* C20: an upsert that succeeds leaves the committed rows and metadata as
\* they are and the transaction open; the row it leaves pending holds the
\* entry's capital, region, population, currency code and flag, an absent
\* one as NULL, the quoted rate and an estimate or NULL for both, and the
\* run's timestamp, whatever the row of that name held before; it keeps the
\* id and the stored name of that row, and no other pending row changes.
C20_UpsertOverwritesEveryColumn ==
    [][\A p \in Procs :
         (LoopOn(p) /\ pc'[p] = "loop" /\ PassesValidation(rc[p][idx[p]])) =>
            LET e     == rc[p][idx[p]]
                olds  == {o \in db \cup txw[p] : NameKey(o.name) = NameKey(e.name)}
                found == FirstCode(e) \in DOMAIN rr[p]
            IN  /\ db' = db /\ meta' = meta /\ txopen'[p]
                /\ \E r \in txw'[p] :
                      /\ Lower(r.name) = Lower(e.name)
                      /\ r.capital = Nullable(e.capital)
                      /\ r.region = Nullable(e.region)
                      /\ r.population = e.population
                      /\ r.currency_code = Some(FirstCode(e))
                      /\ r.flag_url = Nullable(e.flag)
                      /\ r.exchange_rate =
                            (IF found THEN Some(<<rr[p][FirstCode(e)], 1>>) ELSE None)
                      /\ (r.estimated_gdp = None) = ~found
                      /\ r.last_refreshed_at = Some(ToDatetime(now[p]))
                      /\ \A o \in olds : r.id = o.id /\ r.name = o.name
                      /\ olds = {} => r.name = e.name
                      /\ txw'[p] \ {r} = {x \in txw[p] : x.id # r.id}]_vars

\* C20 witness: the committed row 1 holds a capital, a region, a flag, a
\* rate and an estimate; the pending row 1 of the open transaction holds
\* NULL in all five, under the same name.
C20_Witness ==
    /\ txopen[1] /\ pc[1] = "loop"
    /\ \E o \in db : \E r \in txw[1] :
          /\ o.id = 1 /\ r.id = 1 /\ r.name = o.name
          /\ o.capital # None /\ o.region # None /\ o.flag_url # None
          /\ o.exchange_rate # None /\ o.estimated_gdp # None
          /\ r.capital = None /\ r.region = None /\ r.flag_url = None
          /\ r.exchange_rate = None /\ r.estimated_gdp = None
          /\ r.currency_code # o.currency_code

----------------------------------------------------------------------------
(* C21: the derived columns of the stored records *)

\* The derived columns of row r agree: an estimate without a currency code
\* is the zero estimate, and a rate comes with a currency code.
DerivedColumnsAgree(r) ==
    /\ (r.estimated_gdp # None /\ r.currency_code = None) => r.estimated_gdp = Some(<<0, 1>>)
    /\ r.exchange_rate # None => r.currency_code # None

\* The rate of row r is the quote of its currency code in the rate map rates.
RateFoundIn(r, rates) ==
    r.exchange_rate # None =>
        /\ r.currency_code # None
        /\ r.currency_code[1] \in DOMAIN rates
        /\ r.exchange_rate = Some(Frac(rates[r.currency_code[1]], 1))

\* C21: in every state, no committed or pending row has an estimate without
\* a currency code unless the estimate is 0, and no row has a rate without a
\* currency code; every row a run writes or commits that has a rate has a
\* currency code quoted in the rate map that run fetched, the rate being
\* that quote; and the record built from a named entry without a currency
\* code has no code, no rate and the estimate 0, fails validation on its
\* currency code and leaves the pending rows of the run as they are.
C21_DerivedColumnsFollowCurrency ==
    /\ [](\A r \in db \cup UNION {txw[p] : p \in Procs} : DerivedColumnsAgree(r))
    /\ [][\A p \in Procs :
           /\ \A r \in txw'[p] : RateFoundIn(r, rr[p])
           /\ CommitOK(p) => \A r \in db' \ db : RateFoundIn(r, rr[p])
           /\ (LoopOn(p) /\ rc[p][idx[p]].name # "" /\ FirstCode(rc[p][idx[p]]) = "") =>
                 /\ \A k \in RandDraws :
                       LET c == BuildCountry(rc[p][idx[p]], rr[p], k, now[p]) IN
                       /\ c.CurrencyCode = None
                       /\ c.ExchangeRate = None
                       /\ c.EstimatedGDP = Some(<<0, 1>>)
                       /\ "currency_code" \in ValidateErrors(c)
                 /\ pc'[p] = "loop" /\ txw'[p] = txw[p]
                 /\ processed'[p] = processed[p]]_vars

\* C21 witness: a run whose only entry has a population and no currency code
\* has committed with Total 0; the row an earlier run stored under that name
\* keeps its code, its rate and its estimate.
C21_Witness ==
    /\ pc[1] = "done" /\ result[1].err = "" /\ result[1].total = 0
    /\ Len(rc[1]) = 1
    /\ rc[1][1].population > 0 /\ rc[1][1].currencies = <<>>
    /\ \E r \in db :
          /\ r.name = rc[1][1].name
          /\ r.currency_code = Some("USD")
          /\ r.exchange_rate # None
          /\ r.estimated_gdp # None /\ r.estimated_gdp # Some(<<0, 1>>)
          /\ r.last_refreshed_at # Some(ToDatetime(now[1]))

----------------------------------------------------------------------------
(* C23: listing with filters and order *)

\* The step answers GET /countries for invocation p from an existing table.
Listed(p) ==
    /\ resp'[p] # resp[p]
    /\ "request" \in DOMAIN resp'[p]
    /\ resp'[p].status = 200
    /\ resp'[p].request[2] = "/countries"

\* C23: when the table exists, GET /countries fails for no choice of
\* filters or sort token and returns each stored record once that passes
\* the filters and no other record: the region filter, when given, keeps the
\* records whose region equals it ignoring case, the currency filter, when
\* given, those whose currency code equals it ignoring case, both together
\* their intersection, neither every record; under gdp_desc no record comes
\* before one with a larger estimate, under gdp_asc none before one with a
\* smaller estimate, and any other token gives the same records.
C23_GetAllFiltersAndSorts ==
    [][\A p \in Procs :
         (/\ resp'[p] # resp[p]
          /\ "request" \in DOMAIN resp'[p]
          /\ resp'[p].request[2] = "/countries"
          /\ "countries" \in tables) =>
            /\ Listed(p)
            /\ LET region   == resp'[p].request[3]
                   currency == resp'[p].request[4]
                   sort     == resp'[p].request[5]
                   list     == resp'[p].body
                   kept     == {r \in db :
                                  /\ region # "" =>
                                        (r.region # None /\ EqualFold(r.region[1], region))
                                  /\ currency # "" =>
                                        (r.currency_code # None
                                         /\ EqualFold(r.currency_code[1], currency))}
               IN  /\ {list[i].ID : i \in 1..Len(list)} = RowIds(kept)
                   /\ Len(list) = Cardinality(kept)
                   /\ \A i \in 1..Len(list) : \E r \in kept :
                         /\ list[i].ID = r.id /\ list[i].Name = r.name
                         /\ list[i].Region = r.region
                         /\ list[i].CurrencyCode = r.currency_code
                         /\ list[i].EstimatedGDP = r.estimated_gdp
                   /\ (region = "" /\ currency = "") => Len(list) = Cardinality(db)
                   /\ \A i, j \in 1..Len(list) :
                         (i < j /\ list[i].EstimatedGDP # None /\ list[j].EstimatedGDP # None) =>
                            /\ sort = "gdp_desc" =>
                                  GdpGE(list[i].EstimatedGDP[1], list[j].EstimatedGDP[1])
                            /\ sort = "gdp_asc" =>
                                  GdpGE(list[j].EstimatedGDP[1], list[i].EstimatedGDP[1])]_vars

\* C23 witness: GET /countries?region=EUROPE&sort=gdp_desc answered from a
\* store of four records with the two of region Europe, the one with an
\* estimate first.
C23_Witness ==
    /\ Cardinality(db) = 4
    /\ resp[2].status = 200
    /\ resp[2].request = <<"GET", "/countries", "EUROPE", "", "gdp_desc">>
    /\ Len(resp[2].body) = 2
    /\ resp[2].body[1].Name = "Zed" /\ resp[2].body[1].EstimatedGDP # None
    /\ resp[2].body[2].Name = "Genovia" /\ resp[2].body[2].EstimatedGDP = None

----------------------------------------------------------------------------
(* C22: the status endpoint without a stored timestamp *)

\* The step writes the response of GET /status for invocation p.
StatusAnswered(p) ==
    /\ resp'[p] # resp[p]
    /\ "request" \in DOMAIN resp'[p]
    /\ resp'[p].status # 0
    /\ resp'[p].request = <<"GET", "/status">>

\* C22: whenever GET /status is answered while no last-sync timestamp is
\* stored (no run has committed one), the answer is the count of records
\* with last_refreshed_at = null, not an error.
C22_StatusAnswersWithoutTimestamp ==
    [][\A p \in Procs :
         (StatusAnswered(p) /\ meta = None) =>
            /\ resp'[p].status = 200
            /\ resp'[p].body.total_countries \in Nat
            /\ resp'[p].body.last_refreshed_at = None]_vars

----------------------------------------------------------------------------
(* C24: reading and deleting one record by name *)

\* The rows whose name equals name ignoring case.
NamedIgnoringCase(rows, name) == {r \in rows : EqualFold(r.name, name)}

\* The step answers GET /countries/{name} for invocation p.
GetAnswered(p) ==
    /\ resp'[p] # resp[p]
    /\ "request" \in DOMAIN resp'[p]
    /\ resp'[p].request[1] = "GET"
    /\ resp'[p].request[2] = "/countries/{name}"

\* The step is DELETE /countries/{name} served by invocation p.
DeleteServed(p) ==
    /\ pc' = pc /\ idx' = idx /\ tables' = tables
    /\ "request" \in DOMAIN resp'[p]
    /\ resp'[p].request[1] = "DELETE"
    /\ resp'[p] # resp[p] \/ db' # db

\* C24: on an existing table, GET /countries/{name} answers with a record
\* whose name equals the argument ignoring case when the store holds one and
\* with not-found otherwise; DELETE /countries/{name} reports success exactly
\* when it removed a row, the rows it removes are those whose name equals the
\* argument ignoring case, and otherwise it leaves the store as it was; right
\* after a successful delete no row of that name is left, and a name that has
\* no row gets one again only by the commit of a refresh.
C24_GetAndDeleteByName ==
    [][\A p \in Procs :
         /\ (GetAnswered(p) /\ "countries" \in tables) =>
               LET name == resp'[p].request[3] IN
               IF NamedIgnoringCase(db, name) = {}
               THEN resp'[p].status = 404
               ELSE /\ resp'[p].status = 200
                    /\ EqualFold(resp'[p].body.Name, name)
                    /\ \E r \in db : resp'[p].body = ScanCountry(r)
         /\ DeleteServed(p) =>
               LET name == resp'[p].request[3] IN
               /\ (resp'[p].status = 200) = (db \ db' # {})
               /\ db' \subseteq db
               /\ resp'[p].status = 200 =>
                     /\ db \ db' = NamedIgnoringCase(db, name)
                     /\ NamedIgnoringCase(db', name) = {}
               /\ resp'[p].status # 200 => db' = db
               /\ (resp'[p].status = 404) = ("countries" \in tables /\ DeleteLockFree(p)
                                              /\ NamedIgnoringCase(db, name) = {})
         /\ \A name \in NameParams :
               (NamedIgnoringCase(db, name) = {} /\ NamedIgnoringCase(db', name) # {}) =>
                  \E q \in Procs : CommitOK(q)]_vars

\* C24 witness: Wakanda was stored and then deleted under another spelling,
\* a later refresh stored Zed, and GET /countries/wakanda has answered
\* not-found.
C24_Witness ==
    /\ {r.name : r \in db} = {"Zed"}
    /\ nextId = 3
    /\ resp[2] = WriteErrorTo(<<"GET", "/countries/{name}", "wakanda">>, 404, "Country not found")

----------------------------------------------------------------------------
(* C25: the order of the two fetches *)

\* C25: a run contacts the rate feed only from the position it reaches by
\* fetching and decoding the directory; the first step of a run is the
\* directory fetch, which either hands its payload on to the rate fetch or
\* ends the run with an ExternalError naming restcountries, the rate feed not
\* contacted; so an error naming exchangerates comes only from a run whose
\* directory fetch succeeded.
C25_DirectoryFirstThenRates ==
    [][\A p \in Procs :
         Moved(p) =>
            /\ pc[p] = "idle" =>
                  /\ pc'[p] \in {"rates", "done"}
                  /\ rr[p] = NoRates /\ rr'[p] = NoRates
                  /\ pc'[p] = "done" => result'[p] = ExternalError("restcountries")
                  /\ pc'[p] = "rates" => result'[p] = NoResult
            /\ pc'[p] = "rates" => pc[p] = "idle"
            /\ rr'[p] # rr[p] => (pc[p] = "rates" \/ pc'[p] = "idle")
            /\ (pc'[p] = "done" /\ result'[p].err = "ExternalError"
                /\ result'[p].api = "exchangerates") =>
                  (pc[p] = "rates" /\ result[p] = NoResult)]_vars

\* C25 witness: a run over a store that holds a record has ended in the
\* error that names the directory, without a rate map.
C25_Witness ==
    /\ pc[1] = "done"
    /\ result[1] = ExternalError("restcountries")
    /\ rr[1] = NoRates /\ rc[1] = <<>>
    /\ db # {}

----------------------------------------------------------------------------
(* C26: the stored timestamps across commits *)

\* C26: at every successful commit, of overlapping runs too, the stored
\* last-sync timestamp is not earlier than the one stored before, and no
\* committed record has a last_refreshed_at later than the stored last-sync
\* timestamp (both in whole seconds, as stored).
C26_LastSyncNeverDecreases ==
    [][\A p \in Procs :
         CommitOK(p) =>
            /\ meta # None => meta'[1] >= meta[1]
            /\ \A r \in db' : r.last_refreshed_at[1] <= meta'[1]]_vars

----------------------------------------------------------------------------
(* C27: termination *)

\* C27: every invocation of Refresh that has started, alone or overlapping
\* another that upserts the same names, eventually returns with its
\* transaction committed or rolled back: no transaction is left open and no
\* write is left pending; and a transaction is open only between BeginTx and
\* the return.
C27_RefreshTerminates ==
    /\ \A p \in Procs :
          (pc[p] # "done") ~>
             (pc[p] = "done" /\ ~txopen[p] /\ txw[p] = {} /\ txmeta[p] = None)
    /\ [](\A p \in Procs : txopen[p] => pc[p] \in {"loop", "commit"})

\* C27 witness: each of two overlapping invocations holds the row the other
\* one upserts next, and the statements of both have reserved their ids and
\* wait.
C27_Witness ==
    /\ pc[1] = "loop" /\ pc[2] = "loop"
    /\ idx[1] = 2 /\ idx[2] = 2
    /\ Len(rc[1]) = 2 /\ Len(rc[2]) = 2
    /\ txw[1] # {} /\ txw[2] # {}
    /\ reserved[1] # 0 /\ reserved[2] # 0 /\ reserved[1] # reserved[2]
    /\ ~LockFree(1, NameKey(rc[1][2].name))
    /\ ~LockFree(2, NameKey(rc[2][2].name))

----------------------------------------------------------------------------
(* C28: refreshes do not remove rows *)

\* The run of invocation p upserts an entry under the name of row r.
UpsertsNameOf(p, r) ==
    \E i \in 1..Len(rc[p]) : PassesValidation(rc[p][i]) /\ EqualFold(rc[p][i].name, r.name)

\* The step is a POST /drop-tables that drops the table countries.
DropServed(p) ==
    /\ pc[p] = "drop_countries" /\ pc'[p] = "idle"
    /\ \A q \in Procs \ {p} : pc'[q] = pc[q] /\ idx'[q] = idx[q]
    /\ "countries" \in tables /\ "countries" \notin tables'
    /\ "request" \in DOMAIN resp'[p]
    /\ resp'[p].request = <<"POST", "/drop-tables">>

\* C28: the commit of a refresh removes no row, leaves every row whose name
\* the run does not upsert (absent from its list, or only skipped in it) as
\* it was, and does not lower the record count; a step that removes a row
\* is a successful DELETE /countries/{name} or a DropTables.
C28_RefreshNeverRemovesRows ==
    [][/\ \A p \in Procs :
            CommitOK(p) =>
               /\ RowIds(db) \subseteq RowIds(db')
               /\ Cardinality(db') >= Cardinality(db)
               /\ \A r \in db : ~UpsertsNameOf(p, r) => r \in db'
       /\ RowIds(db) \ RowIds(db') # {} =>
             \E p \in Procs : (DeleteServed(p) /\ resp'[p].status = 200) \/ DropServed(p)]_vars

\* C28 witness: a run whose list skips Wakanda and stores Zed has committed;
\* the row of Wakanda, written by an earlier run, is still there beside Zed.
C28_Witness ==
    /\ pc[1] = "done" /\ result[1].err = ""
    /\ Len(rc[1]) = 2 /\ rc[1][1].name = "Wakanda" /\ ~PassesValidation(rc[1][1])
    /\ \E w, z \in db :
          /\ w.name = "Wakanda" /\ z.name = "Zed"
          /\ z.last_refreshed_at = Some(ToDatetime(now[1]))
          /\ w.last_refreshed_at # Some(ToDatetime(now[1]))

----------------------------------------------------------------------------
(* C29: the state the summary picture shows *)

\* C29: the picture a summary goroutine draws shows one committed state:
\* when the goroutine reads its list, the count it holds is the count of the
\* rows the list is read from, even when another run has committed since
\* the goroutine counted.
C29_SummaryShowsOneCommittedState ==
    [][\A i \in DOMAIN render :
         (render[i].st = "top" /\ Len(render') = Len(render) /\ render'[i].st = "draw") =>
            render'[i].total = TotalCount(db)]_vars
====
